---- MODULE Spec2Model ----
(***************************************************************************)
(* A model of the plane-system device communication layer:                 *)
(*   - the command bus (Command, its reply channel, the bus consumer loop  *)
(*     and the producers' command() call),                                 *)
(*   - the camera arbitrator (exclusive enter of one operation),           *)
(*   - the autopilot link (frame synchronisation in recv, the predicate    *)
(*     waiter wait_for_message, set_param and send_command).               *)
(* The three parts share no state; each has a specification of its own     *)
(* (SpecBus, SpecCamera, SpecFraming, SpecLink) over the same variables.   *)
(***************************************************************************)
EXTENDS Integers, Sequences, FiniteSets, TLC

(***************************************************************************)
(* Bounds of the model                                                     *)
(***************************************************************************)
\* producers of one command bus
NumProducers == 2
\* commands issued on the bus, over all producers
MaxCmds == 3

\* tasks that call the camera arbitrator's enter
NumCallers == 2
\* entered operations, over all callers
MaxOps == 3

\* frames in a byte stream given to the frame synchroniser
MaxFrames == 3
\* frames in a byte stream given to the request/acknowledgement operations
MaxLinkFrames == 2
\* set_param / send_command calls in one run of the link task
MaxLinkOps == 2
\* heartbeats that arrive between the answers to init
MaxStrayFrames == 1
\* transient errors of a device that answers device-info requests freely
MaxTransient == 3

\* the retry bound ensure is configured with
EnsureRetries == 4

\* the largest property value drawn
MaxPropValue == 1

\* the longest interval requested, in twentieths of a second
MaxTwentieths == 640

\* the largest count prefix and the most entries in a reply to query
MaxEntries == 2

\* the 16-bit numbers drawn are those at most this far from 0 and from 65535
MaxEdge == 2

Producers == 1..NumProducers
Callers == 1..NumCallers
CmdIds == 1..MaxCmds
NoCmd == 0

VARIABLES
    \* ---- command bus ----
    cmdQueue,     \* the flume queue of the bus: commands enqueued, not yet dequeued
    busOpen,      \* the bus's receiving end (owned by the consumer task) is alive
    chan,         \* per command: its oneshot reply channel
    nextCmd,      \* next command id
    prodPc,       \* per producer: position in command()
    prodCmd,      \* per producer: the command it is sending / awaiting
    prodResult,   \* per producer: what its last command() call returned
    consPc,       \* the consumer's position in its loop
    consHeld,     \* the command the consumer holds (dequeued, not yet replied)
    consResult,   \* the result exec produced for consHeld
    enqLog,       \* command ids in enqueue order
    replyLog,     \* command ids in the order the consumer's reply step ran
    \* ---- camera arbitrator ----
    ifaceLock,    \* the lock around the camera interface: 0 free, else its holder
    nextOp,       \* next operation id
    camPc,        \* per caller: position in enter(operation)
    camOp,        \* per caller: the operation it entered with
    camIssued,    \* per caller: device commands its operation has issued
    camResult,    \* per caller: what its last operation returned
    camTrace,     \* per caller: the steps of its current call, in order
    devLog,       \* the device commands the camera has seen, in order
    \* ---- autopilot link ----
    scenario,     \* what the autopilot sends: frames, a tail, eof = it then closes the connection
    tcpFine,      \* TCP may deliver any number of bytes per read (else whole frames)
    wire,         \* bytes of the stream the socket has not delivered yet
    buf,          \* PixhawkClient.buf
    linkPc,       \* the link task's position
    linkCtx,      \* who calls recv: "run" (the receive loop), "wfm" (a wait of a
                  \* set_param / send_command call), "init" (a wait of init)
    linkOp,       \* the set_param / send_command call in progress (or the last one)
    opCount,      \* calls started so far
    opResult,     \* what the last call returned
    lastMsg,      \* the message recv returned last
    handled,      \* the messages passed to handle(), in order
    sent,         \* the messages sent to the autopilot, in order
    now,          \* the clock, counted from the start of the current call
    deadline,     \* wait_for_message's deadline
    wfmStatus,    \* how the last wait_for_message ended
    wfmSeen,      \* the messages decoded during the current wait, in order
    iterLate,     \* the current iteration of the wait began after the deadline
    cutRest,      \* the bytes of the stream from the start of the frame the last timeout
                  \* cut recv in (those in buf and those to come), 0 when there is none
    \* ---- camera connection (CameraInterface::connect) ----
    connPc,           \* connect's position
    protocol_version, \* connect's protocol_version
    retries,          \* connect's retries
    session,          \* the device's PTP session: "closed" or "open"
    devPhase,         \* the last SDIO_Connect phase the device accepted
    ptpLog,           \* the commands the device saw, in order, equal neighbours
                      \* counted in one entry
    retried,          \* failed SDIO_GetExtDeviceInfo requests retried in this call
    connResult,       \* what connect returned
    device,           \* how the device answers SDIO_GetExtDeviceInfo (never changes)
    devBusy,          \* the transient errors the device still answers with
    \* ---- camera tasks and the interface guard (create_tasks) ----
    gPc,          \* create_tasks' position
    liveCfg,      \* config.live is Some
    gConnect,     \* how connect ended in InterfaceGuard::new: "none", "ok", "err"
    guardMade,    \* InterfaceGuard::new returned a guard
    refs,         \* holder -> the references to the shared interface it holds
    tasksMade,    \* the tasks constructed
    linkUp,       \* the device is connected
    disconnects,  \* the disconnect commands sent to the device
    discReply,    \* the device's answer to disconnect: "none", "ok", "err"
    gLogged,      \* the warnings and errors logged
    gResult,      \* what create_tasks returned
    \* ---- CameraClient::ensure_mode ----
    modePc,       \* ensure_mode's position
    mode,         \* ensure_mode's argument
    modeRetries,  \* ensure_mode's retries
    opMode,       \* the device's OperatingMode property
    modeSets,     \* the writes of OperatingMode sent to the device
    confirmed,    \* a read-back of OperatingMode equalled mode in this call
    modeResult,   \* what ensure_mode returned
    \* ---- ensure(property, value) ----
    ensPc,        \* ensure's position
    ensProp,      \* the property ensure writes
    ensValue,     \* the value ensure writes
    devProps,     \* the device's properties: property -> the value a query shows
    reflectAt,    \* the poll from which the device shows a written value; 0: never
    ensWrites,    \* the writes ensure sent
    pollLog,      \* the values ensure read back, one per poll
    ensResult,    \* what ensure returned
    \* ---- cmd_capture: the wait for the image confirmation ----
    capPc,      \* cmd_capture's position
    watchAt,    \* the time at which the watch of ShootingFileInfo is ready
    watchRes,   \* what the watch yields: "ok" or "err"
    waitAt,     \* the time at which the wait for event 0xC204 is ready
    waitRes,    \* what the wait yields: "ok" or "err"
    capNow,     \* the time since the confirmation wait began, in ms
    watchSt,    \* the watch future: "pending", "ready" or "dropped"
    waitSt,     \* the wait future: "pending", "ready" or "dropped"
    capResult,  \* what cmd_capture returned
    \* ---- the wire codecs of ShutterSpeed, Aperture and Iso ----
    codecPc,    \* "value": a value to encode, "wire": a wire value to decode, "done"
    codecKind,  \* the type: "ShutterSpeed", "Aperture" or "Iso"
    codecVal,   \* the value given, <<>> when a wire value was given
    codecWire,  \* the wire value: a u64 as four 16-bit words, the highest first
    codecOut,   \* what from_u64 returned: <<v>> for Some(v), <<>> for None
    \* ---- CameraInterface::query ----
    qPc,          \* query's position
    qReply,        \* the device's reply: the count prefix and the entries that follow
    qRead,        \* the entries of the qReply read so far
    qIter,        \* the iterations of the loop done
    num_entries,  \* query's num_entries
    properties,   \* query's map, as the set of its entries [code, info]
    qResult,      \* what query returned
    \* ---- run_tasks: the supervisor and its tasks ----
    procSt,       \* the process: "running", "exited:ok", "exited:err" or "exited:forced"
    taskSt,       \* task -> "running", "ok", "err" or "panicked"
    linkIo,       \* the TCP error the autopilot link met: "none", "read" or "write"
    joined,       \* the tasks whose end the supervisor has handled
    inbox,        \* task -> an interrupt is waiting in its receiver
    interrupted,  \* the interrupt was broadcast
    causes,       \* why the interrupt was broadcast: "ctrlc" and the tasks that failed
    since,        \* the seconds since the first broadcast of the interrupt
    watchdogs,    \* the force-quit timers, each as the value of since when it was set
    lagged,       \* task -> its receiver missed an interrupt: a second one was sent before it looked
    \* ---- continuous capture: the Interval request ----
    ivPc,      \* position in cmd_continuous_capture, Interval
    ivReq,     \* the request: interval * 10. as computed, in hundredths of a second
    ivT,       \* the interval after the cast to u16, in tenths of a second
    ivWrites,  \* the device operations of the request
    ivResult   \* what the request returned

busVars == <<cmdQueue, busOpen, chan, nextCmd, prodPc, prodCmd,
             prodResult, consPc, consHeld, consResult, enqLog, replyLog>>

camVars == <<ifaceLock, nextOp, camPc, camOp, camIssued, camResult, camTrace, devLog>>

linkVars == <<scenario, tcpFine, wire, buf, linkPc, linkCtx, linkOp, opCount,
              opResult, lastMsg, handled, sent, now, deadline, wfmStatus, wfmSeen,
              iterLate, cutRest>>

connVars == <<connPc, protocol_version, retries, session, devPhase, ptpLog, retried,
              connResult, device, devBusy>>

guardVars == <<gPc, liveCfg, gConnect, guardMade, refs, tasksMade, linkUp,
               disconnects, discReply, gLogged, gResult>>

modeVars == <<modePc, mode, modeRetries, opMode, modeSets, confirmed, modeResult>>

ensVars == <<ensPc, ensProp, ensValue, devProps, reflectAt, ensWrites, pollLog,
             ensResult>>

capVars == <<capPc, watchAt, watchRes, waitAt, waitRes, capNow, watchSt,
              waitSt, capResult>>

codecVars == <<codecPc, codecKind, codecVal, codecWire, codecOut>>

queryVars == <<qPc, qReply, qRead, qIter, num_entries, properties, qResult>>

supVars == <<procSt, taskSt, linkIo, joined, inbox, interrupted, causes,
              since, watchdogs, lagged>>

ivVars == <<ivPc, ivReq, ivT, ivWrites, ivResult>>

\* the parts of the first half of the module, and those of the second
earlyVars == <<busVars, camVars, linkVars, connVars, guardVars, modeVars>>

lateVars == <<ensVars, capVars, codecVars, queryVars, supVars, ivVars>>

vars == <<earlyVars, lateVars>>

\* what the actions of one part leave alone
notBus == <<camVars, linkVars, connVars, guardVars, modeVars, lateVars>>
notCam == <<busVars, linkVars, connVars, guardVars, modeVars, lateVars>>
notLink == <<busVars, camVars, connVars, guardVars, modeVars, lateVars>>
notConn == <<busVars, camVars, linkVars, guardVars, modeVars, lateVars>>
notGuard == <<busVars, camVars, linkVars, connVars, modeVars, lateVars>>
notMode == <<busVars, camVars, linkVars, connVars, guardVars, lateVars>>
notEns == <<earlyVars, capVars, codecVars, queryVars, supVars, ivVars>>
notCap == <<earlyVars, ensVars, codecVars, queryVars, supVars, ivVars>>
notCodec == <<earlyVars, ensVars, capVars, queryVars, supVars, ivVars>>
notQuery == <<earlyVars, ensVars, capVars, codecVars, supVars, ivVars>>
notSup == <<earlyVars, ensVars, capVars, codecVars, queryVars, ivVars>>
notIv == <<earlyVars, ensVars, capVars, codecVars, queryVars, supVars>>

(***************************************************************************)
(* Command bus                                                             *)
(***************************************************************************)

\* A oneshot channel before it is created.
NoChan == [rx |-> "none", tx |-> "none", sent |-> 0, value |-> "none"]

\* Command::new / oneshot::channel(): a fresh single-use reply channel.
Command_new == [rx |-> "alive", tx |-> "alive", sent |-> 0, value |-> "none"]

\* The command queues are created with flume::unbounded(): no capacity.
cmd_channel == [bounded |-> FALSE, cap |-> 0]

SendWouldBlock_Bounded(q) == Len(q) >= 1

\* flume send_async: blocks only when the channel is bounded and full.
SendWouldBlock(q) == cmd_channel.bounded /\ Len(q) >= cmd_channel.cap

Dequeue_Last(q) == [cmd |-> q[Len(q)], rest |-> SubSeq(q, 1, Len(q) - 1)]

\* flume try_recv: the oldest queued command.
Dequeue(q) == [cmd |-> Head(q), rest |-> Tail(q)]

Command_channel_Kept(c) == c

\* Command::channel(self), called by respond, success and error: the command
\* is moved into the call, so the consumer holds nothing afterwards (it could
\* reply again only while it still held the command).
Command_channel(c) == NoCmd

\* oneshot Sender::is_canceled: the receiving end is gone.
is_canceled(ch) == ch.rx = "dropped"

\* oneshot Sender::send: stores the value if the receiver is alive, else the
\* value is handed back (Err) and nothing is sent; the sender is consumed.
oneshot_send(ch, v) ==
    IF ch.rx = "alive"
    THEN [ch EXCEPT !.sent = @ + 1, !.value = v, !.tx = "used"]
    ELSE [ch EXCEPT !.tx = "used"]

\* Dropping a sender that was never used.
DropSender(ch) == IF ch.tx = "alive" THEN [ch EXCEPT !.tx = "dropped"] ELSE ch

InitBus ==
    /\ cmdQueue = <<>>
    /\ busOpen = TRUE
    /\ chan = [c \in CmdIds |-> NoChan]
    /\ nextCmd = 1
    /\ prodPc = [p \in Producers |-> "idle"]
    /\ prodCmd = [p \in Producers |-> NoCmd]
    /\ prodResult = [p \in Producers |-> "none"]
    /\ consPc = "poll"
    /\ consHeld = NoCmd
    /\ consResult = "none"
    /\ enqLog = <<>>
    /\ replyLog = <<>>

\* command(): let (tx, rx) = oneshot::channel();
ProducerCall(p) ==
    /\ prodPc[p] = "idle"
    /\ nextCmd <= MaxCmds
    /\ chan' = [chan EXCEPT ![nextCmd] = Command_new]
    /\ prodCmd' = [prodCmd EXCEPT ![p] = nextCmd]
    /\ nextCmd' = nextCmd + 1
    /\ prodPc' = [prodPc EXCEPT ![p] = "send"]
    /\ prodResult' = [prodResult EXCEPT ![p] = "none"]
    /\ UNCHANGED <<cmdQueue, busOpen, consPc, consHeld, consResult, enqLog, replyLog>>
    /\ UNCHANGED notBus

\* command(): self.send_async((request, tx)).await succeeds.
ProducerEnqueue(p) ==
    /\ prodPc[p] = "send"
    /\ busOpen
    /\ ~SendWouldBlock(cmdQueue)
    /\ cmdQueue' = Append(cmdQueue, prodCmd[p])
    /\ enqLog' = Append(enqLog, prodCmd[p])
    /\ prodPc' = [prodPc EXCEPT ![p] = "await"]
    /\ UNCHANGED <<busOpen, chan, nextCmd, prodCmd, prodResult,
                   consPc, consHeld, consResult, replyLog>>
    /\ UNCHANGED notBus

\* command(): send_async fails because the receiving end of the bus is gone;
\* the (request, tx) pair is dropped and command() bails.
ProducerSendFails(p) ==
    /\ prodPc[p] = "send"
    /\ ~busOpen
    /\ chan' = [chan EXCEPT ![prodCmd[p]] = [DropSender(@) EXCEPT !.rx = "dropped"]]
    /\ prodResult' = [prodResult EXCEPT ![p] = "could not send command"]
    /\ prodPc' = [prodPc EXCEPT ![p] = "idle"]
    /\ prodCmd' = [prodCmd EXCEPT ![p] = NoCmd]
    /\ UNCHANGED <<cmdQueue, busOpen, nextCmd,
                   consPc, consHeld, consResult, enqLog, replyLog>>
    /\ UNCHANGED notBus

\* command(): rx.await? completes: with the value sent, or with the
\* cancellation error when the sender was dropped without a reply.
ProducerAwait(p) ==
    /\ prodPc[p] = "await"
    /\ LET ch == chan[prodCmd[p]] IN
         /\ ch.tx \in {"used", "dropped"}
         /\ prodResult' = [prodResult EXCEPT ![p] =
                             IF ch.sent > 0 THEN ch.value ELSE "canceled"]
         /\ chan' = [chan EXCEPT ![prodCmd[p]].rx = "received"]
    /\ prodPc' = [prodPc EXCEPT ![p] = "idle"]
    /\ prodCmd' = [prodCmd EXCEPT ![p] = NoCmd]
    /\ UNCHANGED <<cmdQueue, busOpen, nextCmd,
                   consPc, consHeld, consResult, enqLog, replyLog>>
    /\ UNCHANGED notBus

\* The caller abandons command() at its await point: the future, and with
\* it the receiving end of the reply channel, is dropped.
ProducerAbandon(p) ==
    /\ prodPc[p] = "await"
    /\ chan[prodCmd[p]].rx = "alive"
    /\ chan' = [chan EXCEPT ![prodCmd[p]].rx = "dropped"]
    /\ prodResult' = [prodResult EXCEPT ![p] = "abandoned"]
    /\ prodPc' = [prodPc EXCEPT ![p] = "idle"]
    /\ prodCmd' = [prodCmd EXCEPT ![p] = NoCmd]
    /\ UNCHANGED <<cmdQueue, busOpen, nextCmd,
                   consPc, consHeld, consResult, enqLog, replyLog>>
    /\ UNCHANGED notBus

\* run(): if let Ok(cmd) = self.cmd.try_recv() { ... } else fall through to
\* the sleep.
ConsumerTryRecv ==
    /\ consPc = "poll"
    /\ IF cmdQueue # <<>>
       THEN /\ consHeld' = Dequeue(cmdQueue).cmd
            /\ cmdQueue' = Dequeue(cmdQueue).rest
            /\ consPc' = "exec"
       ELSE /\ consPc' = "sleep"
            /\ UNCHANGED <<consHeld, cmdQueue>>
    /\ UNCHANGED <<busOpen, chan, nextCmd, prodPc, prodCmd,
                   prodResult, consResult, enqLog, replyLog>>
    /\ UNCHANGED notBus

\* run(): let result = self.exec(cmd.request()).await;
ConsumerExec ==
    /\ consPc = "exec"
    /\ \E r \in {"Ok", "Err"} : consResult' = r
    /\ consPc' = "respond"
    /\ UNCHANGED <<cmdQueue, busOpen, chan, nextCmd, prodPc, prodCmd, prodResult, consHeld, enqLog, replyLog>>
    /\ UNCHANGED notBus

\* Dropping the bus's receiving end disconnects the channel; the commands
\* still queued stay in the channel's shared state, which lives as long as a
\* sender does - and a producer inside command() holds one.
QueueAfterClose(q) == q

InSeq(c, q) == \E i \in 1..Len(q) : q[i] = c

\* the commands that closing the bus drops, and their reply senders with them
Discarded(c, q) == InSeq(c, q) /\ ~InSeq(c, QueueAfterClose(q))

\* The consumer task unwinds after a panic: the command it holds and the
\* bus's receiving end are dropped.
UnwindConsumer ==
    /\ consPc' = "panicked"
    /\ busOpen' = FALSE
    /\ cmdQueue' = QueueAfterClose(cmdQueue)
    /\ chan' = [c \in CmdIds |->
                  IF c = consHeld \/ Discarded(c, cmdQueue)
                  THEN DropSender(chan[c]) ELSE chan[c]]
    /\ consHeld' = NoCmd

\* run(): let _ = cmd.respond(result);
\* Command::respond: panics when the reply channel is canceled, else sends.
ConsumerRespond ==
    /\ consPc = "respond"
    /\ IF is_canceled(chan[consHeld])
       THEN /\ UnwindConsumer
            /\ UNCHANGED replyLog
       ELSE /\ chan' = [chan EXCEPT ![consHeld] = oneshot_send(@, consResult)]
            /\ replyLog' = Append(replyLog, consHeld)
            /\ consHeld' = Command_channel(consHeld)
            /\ consPc' = IF consHeld' = NoCmd THEN "sleep" ELSE "respond"
            /\ UNCHANGED <<cmdQueue, busOpen>>
    /\ UNCHANGED <<nextCmd, prodPc, prodCmd, prodResult,
                   consResult, enqLog>>
    /\ UNCHANGED notBus

\* Command::success(data): self.channel().send(Ok(data))
ConsumerSuccess ==
    /\ consPc = "respond"
    /\ consResult = "Ok"
    /\ chan' = [chan EXCEPT ![consHeld] = oneshot_send(@, "Ok")]
    /\ replyLog' = Append(replyLog, consHeld)
    /\ consHeld' = Command_channel(consHeld)
    /\ consPc' = IF consHeld' = NoCmd THEN "sleep" ELSE "respond"
    /\ UNCHANGED <<cmdQueue, busOpen, nextCmd, prodPc, prodCmd,
                   prodResult, consResult, enqLog>>
    /\ UNCHANGED notBus

\* Command::error(err): self.channel().send(Err(err))
ConsumerError ==
    /\ consPc = "respond"
    /\ consResult = "Err"
    /\ chan' = [chan EXCEPT ![consHeld] = oneshot_send(@, "Err")]
    /\ replyLog' = Append(replyLog, consHeld)
    /\ consHeld' = Command_channel(consHeld)
    /\ consPc' = IF consHeld' = NoCmd THEN "sleep" ELSE "respond"
    /\ UNCHANGED <<cmdQueue, busOpen, nextCmd, prodPc, prodCmd,
                   prodResult, consResult, enqLog>>
    /\ UNCHANGED notBus

\* run(): tokio::time::sleep(Duration::from_millis(10)).await; then loop.
ConsumerSleep ==
    /\ consPc = "sleep"
    /\ consPc' = "poll"
    /\ UNCHANGED <<cmdQueue, busOpen, chan, nextCmd, prodPc, prodCmd, prodResult, consHeld, consResult, enqLog, replyLog>>
    /\ UNCHANGED notBus

\* run(): run_loop(.., interrupt_rx.recv()) - the interrupt ends the loop at
\* its await point, the sleep; run returns and the client, with the bus's
\* receiving end, is dropped.
ConsumerStop ==
    /\ consPc = "sleep"
    /\ consPc' = "stopped"
    /\ busOpen' = FALSE
    /\ cmdQueue' = QueueAfterClose(cmdQueue)
    /\ chan' = [c \in CmdIds |->
                  IF Discarded(c, cmdQueue)
                  THEN DropSender(chan[c]) ELSE chan[c]]
    /\ UNCHANGED <<nextCmd, prodPc, prodCmd, prodResult, consHeld, consResult,
                   enqLog, replyLog>>
    /\ UNCHANGED notBus

NextBus ==
    \/ \E p \in Producers : ProducerCall(p)
    \/ \E p \in Producers : ProducerEnqueue(p)
    \/ \E p \in Producers : ProducerSendFails(p)
    \/ \E p \in Producers : ProducerAwait(p)
    \/ \E p \in Producers : ProducerAbandon(p)
    \/ ConsumerTryRecv
    \/ ConsumerExec
    \/ ConsumerRespond
    \/ ConsumerSuccess
    \/ ConsumerError
    \/ ConsumerSleep
    \/ ConsumerStop


(***************************************************************************)
(* Camera arbitrator                                                       *)
(***************************************************************************)

NoOp == [id |-> 0, kind |-> "none"]

\* The device commands of the operations that callers enter with.
\* "capture": the shutter sequence of cmd_capture; "cc_start": the single
\* control of cmd_continuous_capture's Start.
OpCommands(kind) ==
    IF kind = "capture"
    THEN <<"S1Button:press", "S2Button:press", "S2Button:release", "S1Button:release">>
    ELSE <<"IntervalStillRecording:start">>

OpKinds == {"capture", "cc_start"}

LockFree_Shared(lock) == TRUE

\* enter acquires exclusive access: only while nobody holds the lock.
LockFree(lock) == lock = 0

InitCamera ==
    /\ ifaceLock = 0
    /\ nextOp = 1
    /\ camPc = [c \in Callers |-> "idle"]
    /\ camOp = [c \in Callers |-> NoOp]
    /\ camIssued = [c \in Callers |-> 0]
    /\ camResult = [c \in Callers |-> "none"]
    /\ camTrace = [c \in Callers |-> <<>>]
    /\ devLog = <<>>

Step(ev, ok) == [ev |-> ev, ok |-> ok]

\* Where a call starts: cmd_capture first runs ensure_mode(StillRec).await?,
\* the Start of cmd_continuous_capture goes straight to interface.enter.
FirstStep(kind) == IF kind = "capture" THEN "mode" ELSE "enter"

ControlEnds_IgnoreFailure(ok, n, len) == n >= len

\* i.control(..).await?: the closure ends at the first failing control, or
\* after its last control.
ControlEnds(ok, n, len) == ~ok \/ n >= len

\* What follows interface.enter(..).await?: cmd_capture goes on to wait for
\* the confirmation only when the closure returned Ok.
AfterEnter(kind, result) ==
    IF kind = "capture" /\ result = "Ok" THEN "confirm" ELSE "idle"

\* A caller starts cmd_capture or cmd_continuous_capture's Start.
CamCall(c) ==
    /\ camPc[c] = "idle"
    /\ nextOp <= MaxOps
    /\ \E kind \in OpKinds :
          /\ camOp' = [camOp EXCEPT ![c] = [id |-> nextOp, kind |-> kind]]
          /\ camPc' = [camPc EXCEPT ![c] = FirstStep(kind)]
    /\ nextOp' = nextOp + 1
    /\ camIssued' = [camIssued EXCEPT ![c] = 0]
    /\ camResult' = [camResult EXCEPT ![c] = "none"]
    /\ camTrace' = [camTrace EXCEPT ![c] = <<>>]
    /\ UNCHANGED <<ifaceLock, devLog>>
    /\ UNCHANGED notCam

\* cmd_capture: ensure_mode(&interface, StillRec).await? - an error returns
\* from cmd_capture before interface.enter is reached.
CamEnsureMode(c) ==
    /\ camPc[c] = "mode"
    /\ \E ok \in BOOLEAN :
          /\ camTrace' = [camTrace EXCEPT ![c] = Append(@, Step("mode", ok))]
          /\ IF ok
             THEN /\ camPc' = [camPc EXCEPT ![c] = "enter"]
                  /\ UNCHANGED camResult
             ELSE /\ camPc' = [camPc EXCEPT ![c] = "idle"]
                  /\ camResult' = [camResult EXCEPT ![c] = "Err"]
    /\ UNCHANGED <<ifaceLock, nextOp, camOp, camIssued, devLog>>
    /\ UNCHANGED notCam

\* enter: acquire exclusive access to the device handle.
EnterAcquire(c) ==
    /\ camPc[c] = "enter"
    /\ LockFree(ifaceLock)
    /\ ifaceLock' = c
    /\ camPc' = [camPc EXCEPT ![c] = "run"]
    /\ camTrace' = [camTrace EXCEPT ![c] = Append(@, Step("enter", TRUE))]
    /\ UNCHANGED <<nextOp, camOp, camIssued, camResult, devLog>>
    /\ UNCHANGED notCam

\* The entered operation issues its next device command, i.control(..).await?:
\* a failure ends the operation with that error, the last success ends it
\* with Ok.
CamControl(c) ==
    /\ camPc[c] = "run"
    /\ LET cmds == OpCommands(camOp[c].kind)
           n == camIssued[c] + 1
       IN /\ devLog' = Append(devLog, [op |-> camOp[c].id, ctl |-> cmds[n]])
          /\ camIssued' = [camIssued EXCEPT ![c] = n]
          /\ \E ok \in BOOLEAN :
                /\ camTrace' = [camTrace EXCEPT ![c] = Append(@, Step(cmds[n], ok))]
                /\ IF ~ControlEnds(ok, n, Len(cmds))
                   THEN UNCHANGED <<camPc, camResult>>
                   ELSE /\ camPc' = [camPc EXCEPT ![c] = "return"]
                        /\ camResult' = [camResult EXCEPT ![c] = IF ok THEN "Ok" ELSE "Err"]
    /\ UNCHANGED <<ifaceLock, nextOp, camOp>>
    /\ UNCHANGED notCam

\* enter: the operation has returned; release access.  cmd_capture then
\* either returns the closure's error or starts waiting for the confirmation.
EnterRelease(c) ==
    /\ camPc[c] = "return"
    /\ ifaceLock' = 0
    /\ camPc' = [camPc EXCEPT ![c] = AfterEnter(camOp[c].kind, camResult[c])]
    /\ camTrace' = [camTrace EXCEPT ![c] = Append(@, Step("release", TRUE))]
    /\ UNCHANGED <<nextOp, camOp, camIssued, camResult, devLog>>
    /\ UNCHANGED notCam

\* cmd_capture: the confirmation wait (ShootingFileInfo watch, 3000 ms
\* timeout) ends with the capture's result.
CamConfirm(c) ==
    /\ camPc[c] = "confirm"
    /\ \E ok \in BOOLEAN :
          /\ camTrace' = [camTrace EXCEPT ![c] = Append(@, Step("confirm", ok))]
          /\ camResult' = [camResult EXCEPT ![c] = IF ok THEN "Ok" ELSE "Err"]
    /\ camPc' = [camPc EXCEPT ![c] = "idle"]
    /\ UNCHANGED <<ifaceLock, nextOp, camOp, camIssued, devLog>>
    /\ UNCHANGED notCam

NextCamera ==
    \/ \E c \in Callers : CamCall(c)
    \/ \E c \in Callers : CamEnsureMode(c)
    \/ \E c \in Callers : EnterAcquire(c)
    \/ \E c \in Callers : CamControl(c)
    \/ \E c \in Callers : EnterRelease(c)
    \/ \E c \in Callers : CamConfirm(c)

(***************************************************************************)
(* Autopilot link: framing (PixhawkClient::recv)                           *)
(***************************************************************************)

\* the start-of-frame byte of a MAVLink v1 frame
MAGIC == 254

\* what recv adds to the length byte to get the frame's size
V1_OVERHEAD == 8

\* the size of the chunk one socket read fills at most
CHUNK == 1024

\* the length of a parameter id on the wire
PARAM_ID_LEN == 16

\* the time send_command and set_param wait for the acknowledgement
ACK_TIMEOUT == 10

\* Message ids of the dialect, the codes of MAV_RESULT, and the commands
\* and parameter ids used as inputs.
MsgIds == [HEARTBEAT |-> 0, PARAM_VALUE |-> 22, ATTITUDE |-> 30, COMMAND_ACK |-> 77]
MavResult == [ACCEPTED |-> 0, FAILED |-> 4, IN_PROGRESS |-> 5]
MavCmd == [DO_DIGICAM_CONTROL |-> 203, DO_SET_SERVO |-> 183]
UnknownMsgId == [id |-> 240]

\* set_param's param_id: the id's characters, then NULs up to 16.
PadParamId(id) == [i \in 1..PARAM_ID_LEN |-> IF i <= Len(id) THEN id[i] ELSE 0]

\* the parameter ids the autopilot knows (characters as their codes)
ParamTable ==
    << PadParamId(<<67, 65>>),
       PadParamId(<<67, 65, 77>>),
       PadParamId(<<67, 65, 77, 95, 68, 85, 82, 65, 84, 73, 79, 78>>),
       PadParamId(<<67, 65, 77, 95, 70, 69, 69, 68, 66, 65, 67, 75, 95, 80, 73, 78>>),
       PadParamId(<<67, 65, 77, 95, 70, 69, 69, 68, 66, 65, 67, 75, 95, 80, 79, 76>>) >>

ParamIndex(pid) == CHOOSE i \in 1..Len(ParamTable) : ParamTable[i] = pid

\* the f32 -> T conversion of num_traits::cast: None when T cannot hold it
NumCast(v, type) ==
    IF type = "UINT8" /\ v > 255
    THEN [some |-> FALSE, value |-> 0]
    ELSE [some |-> TRUE, value |-> v]

Heartbeat == [type |-> "HEARTBEAT"]
Attitude == [type |-> "ATTITUDE"]
CommandAck(cmd, res) == [type |-> "COMMAND_ACK", command |-> cmd, result |-> res]
ParamValue(pid, v) == [type |-> "PARAM_VALUE", param_id |-> pid, param_value |-> v]

RECURSIVE SumBytes(_)
SumBytes(bs) == IF bs = <<>> THEN 0 ELSE Head(bs) + SumBytes(Tail(bs))

\* the frame checksum over the bytes after the magic, low byte first
Checksum(bs) == LET s == SumBytes(bs) % 65536 IN << s % 256, s \div 256 >>

\* the payload of a message on the wire
Payload(m) ==
    CASE m.type = "HEARTBEAT" -> <<>>
      [] m.type = "ATTITUDE" -> <<>>
      [] m.type = "COMMAND_ACK" -> << m.command, m.result >>
      [] m.type = "PARAM_VALUE" ->
            << ParamIndex(m.param_id), m.param_value % 256, m.param_value \div 256 >>

\* a frame as the autopilot builds it: good = the checksum is intact
Frame(m) == [msgid |-> MsgIds[m.type], payload |-> Payload(m), good |-> TRUE]
UnknownFrame == [msgid |-> UnknownMsgId.id, payload |-> <<7>>, good |-> TRUE]
Corrupt(f) == [f EXCEPT !.good = FALSE]

\* the bytes of a frame: magic, length, sequence, system, component, message
\* id, payload, checksum
Encode(f) ==
    LET body == << Len(f.payload), 0, 1, 1, f.msgid >> \o f.payload
        ck == Checksum(body)
    IN << MAGIC >> \o body \o
       (IF f.good THEN ck ELSE << (ck[1] + 1) % 256, ck[2] >>)

RECURSIVE EncodeAll(_)
EncodeAll(fs) == IF fs = <<>> THEN <<>> ELSE Encode(Head(fs)) \o EncodeAll(Tail(fs))

\* the message a payload of a known message id stands for
ParsePayload(msgid, payload) ==
    CASE msgid = MsgIds.HEARTBEAT -> Heartbeat
      [] msgid = MsgIds.ATTITUDE -> Attitude
      [] msgid = MsgIds.COMMAND_ACK -> CommandAck(payload[1], payload[2])
      [] msgid = MsgIds.PARAM_VALUE ->
            ParamValue(ParamTable[payload[1]], payload[2] + 256 * payload[3])

KnownMsgIds == {MsgIds.HEARTBEAT, MsgIds.PARAM_VALUE, MsgIds.ATTITUDE, MsgIds.COMMAND_ACK}

\* mavlink::read_v1_msg on the bytes of one frame: the set of results the
\* decoder can give.  A frame of a message id outside the dialect has no
\* checksum seed in the decoder: it is reported either as a checksum
\* mismatch or as an unknown message.
read_v1_msg(content) ==
    LET len == content[2]
        msgid == content[6]
        payload == SubSeq(content, 7, 6 + len)
        ck == << content[7 + len], content[8 + len] >>
    IN IF ck # Checksum(SubSeq(content, 2, 6 + len))
       THEN {[kind |-> "InvalidChecksum"]}
       ELSE IF msgid \notin KnownMsgIds
            THEN {[kind |-> "InvalidChecksum"], [kind |-> "UnknownMessage"]}
            ELSE {[kind |-> "Ok", msg |-> ParsePayload(msgid, payload)]}

\* self.buf.iter().position(|&b| b == 0xFE), counted from 0; -1 for None
magic_position(b) ==
    IF \E i \in 1..Len(b) : b[i] = MAGIC
    THEN (CHOOSE i \in 1..Len(b) : b[i] = MAGIC /\ \A j \in 1..(i - 1) : b[j] # MAGIC) - 1
    ELSE -1

\* the scan loop's exit condition: a magic with at least two bytes after it
HasHeader(b) == magic_position(b) >= 0 /\ magic_position(b) + 2 < Len(b)

payload_len(b) == b[magic_position(b) + 2]

\* the frame size with two bytes too many
msg_body_size_Ten(b) == payload_len(b) + V1_OVERHEAD + 2

msg_body_size(b) == payload_len(b) + V1_OVERHEAD

\* the condition of the loop that reads the rest of the frame
NeedBody(b) == magic_position(b) + msg_body_size(b) >= Len(b)

msg_content(b) == SubSeq(b, magic_position(b) + 1, magic_position(b) + msg_body_size(b))

\* BytesMut::advance
advance(b, n) == SubSeq(b, n + 1, Len(b))

Min(a, b) == IF a < b THEN a ELSE b

\* the number of bytes one socket read can deliver: any number up to the
\* chunk size, or (coarse delivery) the frame at the front of the stream or
\* everything there is
ReadSizes(w) ==
    IF tcpFine
    THEN 1..Min(Len(w), CHUNK)
    ELSE LET fe == IF Len(w) >= 2 /\ w[1] = MAGIC THEN Min(w[2] + V1_OVERHEAD, Len(w)) ELSE Len(w)
         IN {Min(n, CHUNK) : n \in {fe, Len(w)}}

\* self.sock.read(&mut chunk): the number of bytes it returns; 0 when the
\* peer has closed the connection and everything it sent was read (the read
\* is taken only when there are bytes or the connection is closed)
SocketRead(w) == IF w = <<>> THEN {0} ELSE ReadSizes(w)

NoLinkOp == [name |-> "none"]
NoMsg == [type |-> "none"]
NoResult == [kind |-> "none"]

\* the streams of the framing scenarios
FramingFrames ==
    { Frame(Heartbeat),
      Frame(CommandAck(MavCmd.DO_DIGICAM_CONTROL, MavResult.ACCEPTED)),
      Corrupt(Frame(Heartbeat)),
      Corrupt(Frame(CommandAck(MAGIC, MavResult.ACCEPTED))),
      UnknownFrame }

\* the streams of the request/acknowledgement scenarios
LinkFrames ==
    { Frame(CommandAck(MavCmd.DO_DIGICAM_CONTROL, MavResult.ACCEPTED)),
      Frame(CommandAck(MavCmd.DO_DIGICAM_CONTROL, MavResult.FAILED)),
      Frame(CommandAck(MavCmd.DO_SET_SERVO, MavResult.ACCEPTED)),
      Frame(ParamValue(ParamTable[1], 54)),
      Frame(ParamValue(ParamTable[1], 300)),
      Frame(ParamValue(ParamTable[2], 54)),
      UnknownFrame }

\* the streams of the scenarios in which a wait is cut short
CancelFrames ==
    { Frame(CommandAck(MavCmd.DO_DIGICAM_CONTROL, MavResult.ACCEPTED)),
      Frame(ParamValue(ParamTable[1], 54)),
      Frame(ParamValue(ParamTable[2], 54)) }

\* what may follow the last frame: nothing, or the first byte of a frame
\* that never completes
Tails == { <<>>, << MAGIC >> }

SeqsUpTo(S, n) == UNION {[1..k -> S] : k \in 0..n}

\* the link before PixhawkClient::run: connected, nothing read
InitLinkRest ==
    /\ buf = <<>>
    /\ linkPc = "idle"
    /\ linkOp = NoLinkOp
    /\ opCount = 0
    /\ opResult = NoResult
    /\ lastMsg = NoMsg
    /\ handled = <<>>
    /\ sent = <<>>
    /\ now = 0
    /\ deadline = 0
    /\ wfmStatus = "none"
    /\ wfmSeen = <<>>
    /\ iterLate = FALSE
    /\ cutRest = 0

\* no autopilot traffic at all
InitLinkQuiet ==
    /\ scenario = [frames |-> <<>>, tail |-> <<>>, eof |-> FALSE]
    /\ tcpFine = FALSE
    /\ wire = <<>>
    /\ linkCtx = "none"
    /\ InitLinkRest

\* the receive loop on a stream of frames, bytes delivered in any pieces
InitFraming ==
    /\ \E fs \in SeqsUpTo(FramingFrames, MaxFrames), t \in Tails :
          /\ scenario = [frames |-> fs, tail |-> t, eof |-> FALSE]
          /\ wire = EncodeAll(fs) \o t
    /\ tcpFine = TRUE
    /\ linkCtx = "run"
    /\ InitLinkRest

\* the receive loop on a stream of frames after which the autopilot closes
\* the connection
InitClosed ==
    /\ \E fs \in SeqsUpTo(FramingFrames, MaxFrames), t \in Tails :
          /\ scenario = [frames |-> fs, tail |-> t, eof |-> TRUE]
          /\ wire = EncodeAll(fs) \o t
    /\ tcpFine = TRUE
    /\ linkCtx = "run"
    /\ InitLinkRest

\* callers of set_param / send_command on a stream of frames
InitLink ==
    /\ \E fs \in SeqsUpTo(LinkFrames, MaxLinkFrames), t \in Tails :
          /\ scenario = [frames |-> fs, tail |-> t, eof |-> FALSE]
          /\ wire = EncodeAll(fs) \o t
    /\ tcpFine = FALSE
    /\ linkCtx = "wfm"
    /\ InitLinkRest

\* callers of set_param / send_command on a stream of frames whose bytes
\* arrive in any pieces, so that a wait can end with part of a frame read
InitCancel ==
    /\ \E fs \in SeqsUpTo(CancelFrames, MaxLinkFrames), t \in Tails :
          /\ scenario = [frames |-> fs, tail |-> t, eof |-> FALSE]
          /\ wire = EncodeAll(fs) \o t
    /\ tcpFine = TRUE
    /\ linkCtx = "wfm"
    /\ InitLinkRest

\* the streams of the scenarios about handle: an event among the answers
HandleFrames ==
    { Frame(Heartbeat),
      Frame(Attitude),
      Frame(CommandAck(MavCmd.DO_DIGICAM_CONTROL, MavResult.ACCEPTED)),
      Frame(ParamValue(ParamTable[1], 54)),
      Corrupt(Frame(Attitude)) }

\* recv called by the run loop or by the wait of a set_param / send_command
\* call, on a stream of frames
InitHandle ==
    /\ \E fs \in SeqsUpTo(HandleFrames, MaxLinkFrames), t \in Tails :
          /\ scenario = [frames |-> fs, tail |-> t, eof |-> FALSE]
          /\ wire = EncodeAll(fs) \o t
    /\ tcpFine = FALSE
    /\ linkCtx \in {"run", "wfm"}
    /\ InitLinkRest

\* recv was called by wait_for_message
InWait == linkCtx \in {"wfm", "init"}

\* run(): loop { let msg = self.recv().await?; ... }
RunRecv ==
    /\ linkPc = "idle"
    /\ linkCtx = "run"
    /\ linkPc' = "scan"
    /\ UNCHANGED <<scenario, cutRest, tcpFine, wire, buf, linkCtx, linkOp, opCount, opResult,
                   lastMsg, handled, sent, now, deadline, wfmStatus, wfmSeen, iterLate>>
    /\ UNCHANGED notLink

\* run(): recv returned a message; `if let Ok(()) = self.interrupt.try_recv()
\* { break }`.  An interrupt in the receiver ends the loop; a receiver that
\* lagged gets an error from this try_recv and the interrupt from the next.
RunCheckInterrupt ==
    /\ linkPc = "run_check"
    /\ IF inbox["pixhawk"] /\ ~lagged["pixhawk"]
       THEN /\ linkPc' = "exited"
            /\ inbox' = [inbox EXCEPT !["pixhawk"] = FALSE]
            /\ UNCHANGED lagged
       ELSE /\ linkPc' = "idle"
            /\ lagged' = [lagged EXCEPT !["pixhawk"] = FALSE]
            /\ UNCHANGED inbox
    /\ UNCHANGED <<scenario, cutRest, tcpFine, wire, buf, linkCtx, linkOp, opCount, opResult,
                   lastMsg, handled, sent, now, deadline, wfmStatus, wfmSeen, iterLate>>
    /\ UNCHANGED <<procSt, taskSt, linkIo, joined, interrupted, causes, since, watchdogs>>
    /\ UNCHANGED <<busVars, camVars, connVars, guardVars, modeVars,
                   ensVars, capVars, codecVars, queryVars, ivVars>>

\* recv: look for the magic; with a header in the buffer go on to the frame,
\* else to a socket read
RecvScan ==
    /\ linkPc = "scan"
    /\ linkPc' = IF HasHeader(buf)
                 THEN (IF NeedBody(buf) THEN "read_body" ELSE "decode")
                 ELSE "read_hdr"
    /\ UNCHANGED <<scenario, cutRest, tcpFine, wire, buf, linkCtx, linkOp, opCount, opResult,
                   lastMsg, handled, sent, now, deadline, wfmStatus, wfmSeen, iterLate>>
    /\ UNCHANGED notLink

\* recv: the socket read of the scan loop returns n bytes
RecvReadHdr ==
    /\ linkPc = "read_hdr"
    /\ wire # <<>> \/ scenario.eof
    /\ \E n \in SocketRead(wire) :
          /\ buf' = buf \o SubSeq(wire, 1, n)
          /\ wire' = advance(wire, n)
    /\ linkPc' = "scan"
    /\ UNCHANGED <<scenario, cutRest, tcpFine, linkCtx, linkOp, opCount, opResult,
                   lastMsg, handled, sent, now, deadline, wfmStatus, wfmSeen, iterLate>>
    /\ UNCHANGED notLink

\* recv: the socket read of the frame-body loop returns n bytes
RecvReadBody ==
    /\ linkPc = "read_body"
    /\ wire # <<>> \/ scenario.eof
    /\ \E n \in SocketRead(wire) :
          /\ buf' = buf \o SubSeq(wire, 1, n)
          /\ wire' = advance(wire, n)
    /\ linkPc' = IF NeedBody(buf') THEN "read_body" ELSE "decode"
    /\ UNCHANGED <<scenario, cutRest, tcpFine, linkCtx, linkOp, opCount, opResult,
                   lastMsg, handled, sent, now, deadline, wfmStatus, wfmSeen, iterLate>>
    /\ UNCHANGED notLink

\* the messages handle turns into an event on the pixhawk channel
EventTypes == {"ATTITUDE"}

\* handle that passes on the error of a send without a subscriber
handle_Strict(m, subscribed) ==
    IF m.type \in EventTypes /\ ~subscribed THEN "Err" ELSE "Ok"

\* PixhawkClient::handle: `let _ = self.channels.pixhawk.send(..)` drops the
\* result of the send, then Ok(())
handle(m, subscribed) == "Ok"

\* recv: decode the candidate frame.  Ok: advance past the frame, handle the
\* message (`?`), return it.  InvalidChecksum: advance past the magic, scan
\* again.  Any other error: recv returns it, and so does the caller of recv.
RecvDecode ==
    /\ linkPc = "decode"
    /\ \E r \in read_v1_msg(msg_content(buf)), subscribed \in BOOLEAN :
          CASE r.kind = "Ok" /\ handle(r.msg, subscribed) = "Ok" ->
                  /\ buf' = advance(buf, magic_position(buf) + msg_body_size(buf))
                  /\ handled' = Append(handled, r.msg)
                  /\ lastMsg' = r.msg
                  /\ wfmSeen' = IF InWait
                                THEN Append(wfmSeen, [msg |-> r.msg, late |-> iterLate])
                                ELSE wfmSeen
                  /\ linkPc' = IF InWait THEN "wfm_check" ELSE "run_check"
                  /\ UNCHANGED <<opResult, wfmStatus>>
            [] r.kind = "Ok" ->
                  /\ buf' = advance(buf, magic_position(buf) + msg_body_size(buf))
                  /\ handled' = Append(handled, r.msg)
                  /\ linkPc' = IF InWait THEN "idle" ELSE "failed"
                  /\ opResult' = [kind |-> "Err", why |-> "handle"]
                  /\ wfmStatus' = IF InWait THEN "error" ELSE wfmStatus
                  /\ UNCHANGED <<lastMsg, wfmSeen>>
            [] r.kind = "InvalidChecksum" ->
                  /\ buf' = advance(buf, magic_position(buf) + 1)
                  /\ linkPc' = "scan"
                  /\ UNCHANGED <<handled, lastMsg, wfmSeen, opResult, wfmStatus>>
            [] OTHER ->
                  /\ linkPc' = IF InWait THEN "idle" ELSE "failed"
                  /\ opResult' = [kind |-> "Err", why |-> "parse"]
                  /\ wfmStatus' = IF InWait THEN "error" ELSE wfmStatus
                  /\ UNCHANGED <<buf, handled, lastMsg, wfmSeen>>
    /\ UNCHANGED <<scenario, cutRest, tcpFine, wire, linkCtx, linkOp, opCount, sent, now, deadline, iterLate>>
    /\ UNCHANGED notLink

NextFraming ==
    \/ RunRecv
    \/ RunCheckInterrupt
    \/ RecvScan
    \/ RecvReadHdr
    \/ RecvReadBody
    \/ RecvDecode


(***************************************************************************)
(* Autopilot link: wait_for_message, send_command, set_param               *)
(***************************************************************************)

\* the commands and parameters the callers use
OpCommandsLink == {MavCmd.DO_DIGICAM_CONTROL}
OpParams == {[id |-> <<67, 65>>, value |-> 54, ptype |-> "UINT8"],
             [id |-> <<67, 65>>, value |-> 54, ptype |-> "REAL32"]}

\* the predicates send_command and set_param wait with
Predicate(op, m) ==
    CASE op.name = "send_command" -> m.type = "COMMAND_ACK" /\ m.command = op.command
      [] op.name = "set_param" -> m.type = "PARAM_VALUE" /\ m.param_id = op.param_id
      [] op.name = "wait_heartbeat" -> m.type = "HEARTBEAT"
      [] OTHER -> FALSE

\* send_command: send COMMAND_LONG, then wait_for_message(.., 10 s) takes
\* its deadline
SendCommandCall(cmd) ==
    /\ opCount' = opCount + 1
    /\ linkOp' = [name |-> "send_command", command |-> cmd]
    /\ sent' = Append(sent, [type |-> "COMMAND_LONG", command |-> cmd])
    /\ now' = 0
    /\ deadline' = now' + ACK_TIMEOUT
    /\ wfmStatus' = "active"
    /\ wfmSeen' = <<>>
    /\ iterLate' = FALSE
    /\ opResult' = NoResult
    /\ linkPc' = "wfm_loop"
    /\ UNCHANGED <<scenario, cutRest, tcpFine, wire, buf, linkCtx, lastMsg, handled>>
    /\ UNCHANGED notLink

\* a caller calls send_command
SendCommand(cmd) ==
    /\ linkPc = "idle"
    /\ linkCtx = "wfm"
    /\ opCount < MaxLinkOps
    /\ SendCommandCall(cmd)

\* set_param: build the padded id, send PARAM_SET, then
\* wait_for_message(.., 10 s) takes its deadline
SetParamCall(p) ==
    /\ opCount' = opCount + 1
    /\ linkOp' = [name |-> "set_param", param_id |-> PadParamId(p.id), ptype |-> p.ptype]
    /\ sent' = Append(sent, [type |-> "PARAM_SET", param_id |-> PadParamId(p.id),
                                param_value |-> p.value, param_type |-> p.ptype])
    /\ now' = 0
    /\ deadline' = now' + ACK_TIMEOUT
    /\ wfmStatus' = "active"
    /\ wfmSeen' = <<>>
    /\ iterLate' = FALSE
    /\ opResult' = NoResult
    /\ linkPc' = "wfm_loop"
    /\ UNCHANGED <<scenario, cutRest, tcpFine, wire, buf, linkCtx, lastMsg, handled>>
    /\ UNCHANGED notLink

\* a caller calls set_param
SetParam(p) ==
    /\ linkPc = "idle"
    /\ linkCtx = "wfm"
    /\ opCount < MaxLinkOps
    /\ SetParamCall(p)

\* wait_for_message, top of the loop: remaining_time = deadline - now, then
\* timeout(remaining_time, recv()).  Past the deadline the subtraction
\* panics on toolchains where Instant - Instant is checked and gives zero
\* where it saturates.
WfmLoop ==
    /\ linkPc = "wfm_loop"
    /\ IF now > deadline
       THEN \E saturating \in BOOLEAN :
               IF saturating
               THEN /\ linkPc' = "scan"
                    /\ iterLate' = TRUE
                    /\ UNCHANGED wfmStatus
               ELSE /\ linkPc' = "panicked"
                    /\ wfmStatus' = "panic"
                    /\ UNCHANGED iterLate
       ELSE /\ linkPc' = "scan"
            /\ iterLate' = FALSE
            /\ UNCHANGED wfmStatus
    /\ UNCHANGED <<scenario, cutRest, tcpFine, wire, buf, linkCtx, linkOp, opCount, opResult,
                   lastMsg, handled, sent, now, deadline, wfmSeen>>
    /\ UNCHANGED notLink

\* wait_for_message: the message recv returned satisfies the predicate
\* (return it) or not (loop)
WfmCheck ==
    /\ linkPc = "wfm_check"
    /\ IF Predicate(linkOp, lastMsg)
       THEN linkPc' = "ack" /\ wfmStatus' = "ok"
       ELSE linkPc' = "wfm_loop" /\ UNCHANGED wfmStatus
    /\ UNCHANGED <<scenario, cutRest, tcpFine, wire, buf, linkCtx, linkOp, opCount, opResult,
                   lastMsg, handled, sent, now, deadline, wfmSeen, iterLate>>
    /\ UNCHANGED notLink

\* the bytes of the stream from the frame at the first magic byte of the
\* buffer on, 0 when the buffer has no magic byte
RestFrom(b, w) ==
    IF magic_position(b) >= 0 THEN Len(b) - magic_position(b) + Len(w) ELSE 0

\* the buffer holds the magic byte of a frame but not yet all of its bytes
PartialFrame(b) ==
    /\ magic_position(b) >= 0
    /\ \/ Len(b) < magic_position(b) + 2
       \/ Len(b) < magic_position(b) + msg_body_size(b)

\* wait_for_message: the timer fires while recv waits for the socket; the
\* caller returns the timeout error.  The buffer keeps what was read.
WfmTimeout ==
    /\ linkPc \in {"read_hdr", "read_body"}
    /\ InWait
    /\ now > deadline
    /\ linkPc' = "idle"
    /\ wfmStatus' = "timeout"
    /\ cutRest' = IF PartialFrame(buf) THEN RestFrom(buf, wire) ELSE 0
    /\ opResult' = [kind |-> "Err", why |-> "timeout"]
    /\ UNCHANGED <<scenario, tcpFine, wire, buf, linkCtx, linkOp, opCount,
                   lastMsg, handled, sent, now, deadline, wfmSeen, iterLate>>
    /\ UNCHANGED notLink

\* time passes the deadline while recv waits for the socket
Tick ==
    /\ linkPc \in {"read_hdr", "read_body"}
    /\ InWait
    /\ now <= deadline
    /\ now' = deadline + 1
    /\ UNCHANGED <<scenario, cutRest, tcpFine, wire, buf, linkPc, linkCtx, linkOp, opCount, opResult,
                   lastMsg, handled, sent, deadline, wfmStatus, wfmSeen, iterLate>>
    /\ UNCHANGED notLink

\* send_command: classify the acknowledgement's result
SendCommandAck ==
    /\ linkPc = "ack"
    /\ linkOp.name = "send_command"
    /\ opResult' = IF lastMsg.result \in {MavResult.ACCEPTED, MavResult.IN_PROGRESS}
                   THEN [kind |-> "Ok", value |-> lastMsg.result]
                   ELSE [kind |-> "Err", why |-> "rejected", code |-> lastMsg.result]
    /\ linkPc' = "idle"
    /\ UNCHANGED <<scenario, cutRest, tcpFine, wire, buf, linkCtx, linkOp, opCount,
                   lastMsg, handled, sent, now, deadline, wfmStatus, wfmSeen, iterLate>>
    /\ UNCHANGED notLink

\* set_param: num_traits::cast(data.param_value).unwrap()
SetParamAck ==
    /\ linkPc = "ack"
    /\ linkOp.name = "set_param"
    /\ LET c == NumCast(lastMsg.param_value, linkOp.ptype)
       IN IF c.some
          THEN /\ opResult' = [kind |-> "Ok", value |-> c.value]
               /\ linkPc' = "idle"
          ELSE /\ linkPc' = "panicked"
               /\ UNCHANGED opResult
    /\ UNCHANGED <<scenario, cutRest, tcpFine, wire, buf, linkCtx, linkOp, opCount,
                   lastMsg, handled, sent, now, deadline, wfmStatus, wfmSeen, iterLate>>
    /\ UNCHANGED notLink

NextLink ==
    \/ \E cmd \in OpCommandsLink : SendCommand(cmd)
    \/ \E p \in OpParams : SetParam(p)
    \/ WfmLoop
    \/ WfmCheck
    \/ WfmTimeout
    \/ Tick
    \/ RecvScan
    \/ RecvReadHdr
    \/ RecvReadBody
    \/ RecvDecode
    \/ SendCommandAck
    \/ SetParamAck


(***************************************************************************)
(* Autopilot link: init and run                                            *)
(***************************************************************************)

\* the time init waits for the first heartbeat
HEARTBEAT_TIMEOUT == 100

\* the calls of init after the heartbeat: CAM_DURATION, CAM_FEEDBACK_PIN,
\* CAM_FEEDBACK_POL, DO_DIGICAM_CONTROL
InitPlan ==
    << [call |-> "set_param", id |-> <<67, 65, 77, 95, 68, 85, 82, 65, 84, 73, 79, 78>>,
        value |-> 10, ptype |-> "REAL32"],
       [call |-> "set_param", id |-> <<67, 65, 77, 95, 70, 69, 69, 68, 66, 65, 67, 75, 95, 80, 73, 78>>,
        value |-> 54, ptype |-> "UINT8"],
       [call |-> "set_param", id |-> <<67, 65, 77, 95, 70, 69, 69, 68, 66, 65, 67, 75, 95, 80, 79, 76>>,
        value |-> 1, ptype |-> "UINT8"],
       [call |-> "send_command", command |-> MavCmd.DO_DIGICAM_CONTROL] >>

\* the frames of an autopilot that answers init step by step
InitResponse ==
    << Frame(Heartbeat),
       Frame(ParamValue(ParamTable[3], 10)),
       Frame(ParamValue(ParamTable[4], 54)),
       Frame(ParamValue(ParamTable[5], 1)),
       Frame(CommandAck(MavCmd.DO_DIGICAM_CONTROL, MavResult.ACCEPTED)) >>

\* frames that may stand in the place of an answer
InitBadFrames ==
    { Frame(CommandAck(MavCmd.DO_DIGICAM_CONTROL, MavResult.FAILED)),
      Frame(ParamValue(ParamTable[4], 300)),
      UnknownFrame,
      Corrupt(Frame(Heartbeat)) }

InsertAt(s, p, xs) == SubSeq(s, 1, p) \o xs \o SubSeq(s, p + 1, Len(s))

\* the streams of the init scenarios: the first k answers, possibly with one
\* answer replaced, and up to MaxStrayFrames heartbeats inserted at one place
InitStreams ==
    LET prefixes == {SubSeq(InitResponse, 1, k) : k \in 0..Len(InitResponse)}
        replaced == prefixes \cup
                    UNION {{[t EXCEPT ![j] = b] : j \in 1..Len(t), b \in InitBadFrames} : t \in prefixes}
    IN UNION {{InsertAt(t, p, [i \in 1..n |-> Frame(Heartbeat)]) :
                  p \in 0..Len(t), n \in 0..MaxStrayFrames} : t \in replaced}

\* run() is about to call init on a stream of frames
InitRun ==
    /\ \E fs \in InitStreams, t \in Tails :
          /\ scenario = [frames |-> fs, tail |-> t, eof |-> FALSE]
          /\ wire = EncodeAll(fs) \o t
    /\ tcpFine = FALSE
    /\ linkCtx = "init"
    /\ InitLinkRest

\* init: wait_for_message(HEARTBEAT, 100 s) takes its deadline
InitAwaitHeartbeat ==
    /\ linkPc = "idle"
    /\ linkCtx = "init"
    /\ opCount = 0
    /\ opCount' = 1
    /\ linkOp' = [name |-> "wait_heartbeat"]
    /\ now' = 0
    /\ deadline' = now' + HEARTBEAT_TIMEOUT
    /\ wfmStatus' = "active"
    /\ wfmSeen' = <<>>
    /\ iterLate' = FALSE
    /\ opResult' = NoResult
    /\ linkPc' = "wfm_loop"
    /\ UNCHANGED <<scenario, cutRest, tcpFine, wire, buf, linkCtx, lastMsg, handled, sent>>
    /\ UNCHANGED notLink

\* init: the wait returned the heartbeat
InitHeartbeat ==
    /\ linkPc = "ack"
    /\ linkOp.name = "wait_heartbeat"
    /\ opResult' = [kind |-> "Ok", value |-> 0]
    /\ linkPc' = "idle"
    /\ UNCHANGED <<scenario, cutRest, tcpFine, wire, buf, linkCtx, linkOp, opCount,
                   lastMsg, handled, sent, now, deadline, wfmStatus, wfmSeen, iterLate>>
    /\ UNCHANGED notLink

\* init: the previous call returned Ok, the next call of the sequence starts
InitStep ==
    /\ linkPc = "idle"
    /\ linkCtx = "init"
    /\ opCount \in 1..Len(InitPlan)
    /\ opResult.kind = "Ok"
    /\ LET st == InitPlan[opCount]
       IN IF st.call = "set_param" THEN SetParamCall(st) ELSE SendCommandCall(st.command)

\* init: a call returned an error; `?` returns it from init and from run
InitFail ==
    /\ linkPc = "idle"
    /\ linkCtx = "init"
    /\ opResult.kind = "Err"
    /\ linkPc' = "failed"
    /\ UNCHANGED <<scenario, cutRest, tcpFine, wire, buf, linkCtx, linkOp, opCount, opResult,
                   lastMsg, handled, sent, now, deadline, wfmStatus, wfmSeen, iterLate>>
    /\ UNCHANGED notLink

\* run: init returned Ok, the receive loop begins
InitDone ==
    /\ linkPc = "idle"
    /\ linkCtx = "init"
    /\ opCount = Len(InitPlan) + 1
    /\ opResult.kind = "Ok"
    /\ linkCtx' = "run"
    /\ UNCHANGED <<scenario, cutRest, tcpFine, wire, buf, linkPc, linkOp, opCount, opResult,
                   lastMsg, handled, sent, now, deadline, wfmStatus, wfmSeen, iterLate>>
    /\ UNCHANGED notLink

NextInit ==
    \/ InitAwaitHeartbeat
    \/ InitHeartbeat
    \/ InitStep
    \/ InitFail
    \/ InitDone
    \/ WfmLoop
    \/ WfmCheck
    \/ WfmTimeout
    \/ Tick
    \/ RecvScan
    \/ RecvReadHdr
    \/ RecvReadBody
    \/ RecvDecode
    \/ SendCommandAck
    \/ SetParamAck
    \/ RunRecv
    \/ RunCheckInterrupt


(***************************************************************************)
(* Camera connection: CameraInterface::connect                             *)
(***************************************************************************)

\* the protocol version connect starts with
FIRST_VERSION == 100

\* the highest protocol version connect asks for
LAST_VERSION == 200

\* what an authentication failure adds to the protocol version
VERSION_STEP == 100

\* the number of failed device-info requests connect retries
MAX_RETRIES == 1000

\* the answers of the device to SDIO_GetExtDeviceInfo: the info, the info
\* in a reply that cannot be decoded, authentication failed (0xA101),
\* another error
InfoReplies == {"ok", "undecodable", "auth", "other"}

\* The devices.  A "free" device answers each request with any reply, with
\* a transient error at most MaxTransient times.  A "busy" device answers
\* the first busyFor requests after each handshake with a transient error,
\* then with authentication failed while the version asked is below the
\* one it needs, else with its info.
Devices ==
    {[kind |-> "free", busyFor |-> MaxTransient, needs |-> FIRST_VERSION]}
    \cup {[kind |-> "busy", busyFor |-> b, needs |-> v] :
             b \in {MAX_RETRIES, MAX_RETRIES + 1},
             v \in {FIRST_VERSION, LAST_VERSION, LAST_VERSION + VERSION_STEP}}

\* the replies the device can give to a device-info request
DeviceReplies(dev, busy, version) ==
    IF dev.kind = "free"
    THEN IF busy > 0 THEN InfoReplies ELSE InfoReplies \ {"other"}
    ELSE IF busy > 0 THEN {"other"}
         ELSE IF version < dev.needs THEN {"auth"} ELSE {"ok", "undecodable"}

\* append a command to the device's log, counting it in the last entry when
\* it equals the last command
Logged(log, cmd, arg, reply) ==
    IF /\ log # <<>>
       /\ log[Len(log)].cmd = cmd
       /\ log[Len(log)].arg = arg
       /\ log[Len(log)].reply = reply
    THEN [log EXCEPT ![Len(log)].n = @ + 1]
    ELSE Append(log, [cmd |-> cmd, arg |-> arg, reply |-> reply, n |-> 1])

\* an authentication failure raises the version while it is below 2.00
CanRaise_Always(v) == TRUE

CanRaise(v) == v < LAST_VERSION

\* another error is retried while fewer than 1000 were
CanRetry_Once(r) == r < 1

CanRetry(r) == r < MAX_RETRIES

\* where connect goes on after raising the version: continue 'protocol
ResumeAfterAuthFailure_Skip == "phase3"

\* staying in the request loop of the raised version
ResumeAfterAuthFailure_Stay == "info"

ResumeAfterAuthFailure == "phase1"

\* before connect: no session, no command sent
InitConnectRest ==
    /\ connPc = "start"
    /\ protocol_version = FIRST_VERSION
    /\ retries = 0
    /\ session = "closed"
    /\ devPhase = 0
    /\ ptpLog = <<>>
    /\ retried = 0
    /\ connResult = "none"

\* connect is about to be called, on any of the devices
InitConnect ==
    /\ InitConnectRest
    /\ device \in Devices
    /\ devBusy = device.busyFor

\* no connect in progress
InitConnectQuiet ==
    /\ InitConnectRest
    /\ device = [kind |-> "free", busyFor |-> MaxTransient, needs |-> FIRST_VERSION]
    /\ devBusy = device.busyFor

\* self.camera.open_session(..)?; protocol_version = 100
ConnectOpenSession ==
    /\ connPc = "start"
    /\ \E ok \in BOOLEAN :
          IF ok
          THEN session' = "open" /\ connPc' = "phase1" /\ UNCHANGED connResult
          ELSE connPc' = "returned" /\ connResult' = "Err" /\ UNCHANGED session
    /\ protocol_version' = FIRST_VERSION
    /\ UNCHANGED <<retries, devPhase, ptpLog, retried, device, devBusy>>
    /\ UNCHANGED notConn

\* SDIO_Connect phase 1, `?`
ConnectPhase1 ==
    /\ connPc = "phase1"
    /\ \E ok \in BOOLEAN :
          /\ ptpLog' = Logged(ptpLog, "SdioConnect", 1, IF ok THEN "ok" ELSE "err")
          /\ IF ok
             THEN devPhase' = 1 /\ connPc' = "phase2" /\ UNCHANGED connResult
             ELSE connPc' = "returned" /\ connResult' = "Err" /\ UNCHANGED devPhase
    /\ UNCHANGED <<protocol_version, retries, session, retried, device, devBusy>>
    /\ UNCHANGED notConn

\* SDIO_Connect phase 2, `?`; retries = 0
ConnectPhase2 ==
    /\ connPc = "phase2"
    /\ \E ok \in BOOLEAN :
          /\ ptpLog' = Logged(ptpLog, "SdioConnect", 2, IF ok THEN "ok" ELSE "err")
          /\ IF ok
             THEN /\ devPhase' = 2 /\ connPc' = "info" /\ retries' = 0
                  /\ devBusy' = IF device.kind = "busy" THEN device.busyFor ELSE devBusy
                  /\ UNCHANGED connResult
             ELSE /\ connPc' = "returned" /\ connResult' = "Err"
                  /\ UNCHANGED <<devPhase, retries, devBusy>>
    /\ UNCHANGED <<protocol_version, session, retried, device>>
    /\ UNCHANGED notConn

\* SDIO_GetExtDeviceInfo(protocol_version) and the match on its result
ConnectGetInfo ==
    /\ connPc = "info"
    /\ \E r \in DeviceReplies(device, devBusy, protocol_version) :
          /\ ptpLog' = Logged(ptpLog, "SdioGetExtDeviceInfo", protocol_version, r)
          /\ devBusy' = IF r = "other" THEN devBusy - 1 ELSE devBusy
          /\ CASE r = "ok" ->
                    /\ connPc' = "phase3"
                    /\ UNCHANGED <<protocol_version, retries, retried, connResult>>
               [] r = "undecodable" ->
                    /\ connPc' = "returned"
                    /\ connResult' = "Err"
                    /\ UNCHANGED <<protocol_version, retries, retried>>
               [] r = "auth" ->
                    IF CanRaise(protocol_version)
                    THEN /\ protocol_version' = protocol_version + VERSION_STEP
                         /\ connPc' = ResumeAfterAuthFailure
                         /\ UNCHANGED <<retries, retried, connResult>>
                    ELSE /\ connPc' = "returned"
                         /\ connResult' = "Err:unsupported firmware"
                         /\ UNCHANGED <<protocol_version, retries, retried>>
               [] r = "other" ->
                    IF CanRetry(retries)
                    THEN /\ retries' = retries + 1
                         /\ retried' = retried + 1
                         /\ UNCHANGED <<connPc, protocol_version, connResult>>
                    ELSE /\ connPc' = "returned"
                         /\ connResult' = "Err"
                         /\ UNCHANGED <<protocol_version, retries, retried>>
    /\ UNCHANGED <<session, devPhase, device>>
    /\ UNCHANGED notConn

\* SDIO_Connect phase 3, `?`; Ok(())
ConnectPhase3 ==
    /\ connPc = "phase3"
    /\ \E ok \in BOOLEAN :
          /\ ptpLog' = Logged(ptpLog, "SdioConnect", 3, IF ok THEN "ok" ELSE "err")
          /\ IF ok
             THEN devPhase' = 3 /\ connResult' = "Ok"
             ELSE connResult' = "Err" /\ UNCHANGED devPhase
    /\ connPc' = "returned"
    /\ UNCHANGED <<protocol_version, retries, session, retried, device, devBusy>>
    /\ UNCHANGED notConn

NextConnect ==
    \/ ConnectOpenSession
    \/ ConnectPhase1
    \/ ConnectPhase2
    \/ ConnectGetInfo
    \/ ConnectPhase3

(***************************************************************************)
(* Camera tasks and the interface guard: create_tasks, InterfaceGuard      *)
(***************************************************************************)

\* the tasks that share the interface
Tasks == {"event", "control", "download", "live"}

\* the owners of a reference: create_tasks' local `interface` and the tasks
Holders == {"local"} \cup Tasks

NoRefs == [h \in Holders |-> 0]

\* Arc: the value is dropped when the reference released is the last one
LastReference_Any(r, h) == TRUE

LastReference(r, h) == \A k \in Holders \ {h} : r[k] = 0

\* `interface.connect()...?`: where InterfaceGuard::new goes on
GuardAfterConnect_Ignore(ok) == "time"

GuardAfterConnect(ok) == IF ok THEN "time" ELSE "returned"

\* create_tasks is about to be called
InitGuardRest ==
    /\ gPc = "start"
    /\ gConnect = "none"
    /\ guardMade = FALSE
    /\ refs = NoRefs
    /\ tasksMade = {}
    /\ linkUp = FALSE
    /\ disconnects = 0
    /\ discReply = "none"
    /\ gLogged = {}
    /\ gResult = "none"

InitGuard == InitGuardRest /\ liveCfg \in BOOLEAN

InitGuardQuiet == InitGuardRest /\ liveCfg = FALSE

\* Drop for InterfaceGuard: disconnect, an error is logged
DropGuard ==
    \E ok \in BOOLEAN :
       /\ disconnects' = disconnects + 1
       /\ discReply' = IF ok THEN "ok" ELSE "err"
       /\ linkUp' = IF ok THEN FALSE ELSE linkUp
       /\ gLogged' = IF ok THEN gLogged ELSE gLogged \cup {"error: failed to disconnect"}

\* CameraInterface::new()...?
GuardNewInterface ==
    /\ gPc = "start"
    /\ \E ok \in BOOLEAN :
          IF ok
          THEN gPc' = "connect" /\ UNCHANGED gResult
          ELSE gPc' = "returned" /\ gResult' = "Err:interface"
    /\ UNCHANGED <<liveCfg, gConnect, guardMade, refs, tasksMade, linkUp,
                   disconnects, discReply, gLogged>>
    /\ UNCHANGED notGuard

\* interface.connect(): a step of connect
GuardConnectStep ==
    /\ gPc = "connect"
    /\ NextConnect

\* interface.connect()...?: connect has returned
GuardConnect ==
    /\ gPc = "connect"
    /\ connPc = "returned"
    /\ LET ok == connResult = "Ok" IN
          /\ gConnect' = IF ok THEN "ok" ELSE "err"
          /\ linkUp' = ok
          /\ gPc' = GuardAfterConnect(ok)
          /\ gResult' = IF gPc' = "returned" THEN "Err:connect" ELSE gResult
    /\ UNCHANGED <<liveCfg, guardMade, refs, tasksMade, disconnects, discReply,
                   gLogged>>
    /\ UNCHANGED notGuard

\* interface.set(DateTime, ..), a failure is a warning; Ok(Self(interface));
\* Arc::new(RwLock::new(..))
GuardSetTime ==
    /\ gPc = "time"
    /\ \E ok \in BOOLEAN :
          gLogged' = IF ok THEN gLogged ELSE gLogged \cup {"warn: could not set time"}
    /\ guardMade' = TRUE
    /\ refs' = [refs EXCEPT !["local"] = 1]
    /\ gPc' = "event"
    /\ UNCHANGED <<liveCfg, gConnect, tasksMade, linkUp, disconnects, discReply,
                   gResult>>
    /\ UNCHANGED notGuard

\* XTask::new(interface.clone(), ..)
CreateTask(t, next) ==
    /\ refs' = [refs EXCEPT ![t] = 1]
    /\ tasksMade' = tasksMade \cup {t}
    /\ gPc' = next
    /\ UNCHANGED <<liveCfg, gConnect, guardMade, linkUp, disconnects, discReply,
                   gLogged, gResult>>
    /\ UNCHANGED notGuard

CreateEventTask == gPc = "event" /\ CreateTask("event", "control")

CreateControlTask == gPc = "control" /\ CreateTask("control", "download")

CreateDownloadTask == gPc = "download" /\ CreateTask("download", "live")

\* config.live is None: create_tasks returns the three tasks and its own
\* reference is dropped
CreateTasksReturn ==
    /\ gPc = "live"
    /\ ~liveCfg
    /\ refs' = [refs EXCEPT !["local"] = 0]
    /\ gPc' = "returned"
    /\ gResult' = "Ok"
    /\ IF LastReference(refs, "local")
       THEN DropGuard
       ELSE UNCHANGED <<linkUp, disconnects, discReply, gLogged>>
    /\ UNCHANGED <<liveCfg, gConnect, guardMade, tasksMade>>
    /\ UNCHANGED notGuard

\* LiveTask::new(interface, config)?: the live task takes create_tasks' own
\* reference; when it fails, the reference and the three tasks are dropped
CreateLiveTask ==
    /\ gPc = "live"
    /\ liveCfg
    /\ \E ok \in BOOLEAN :
          IF ok
          THEN /\ refs' = [refs EXCEPT !["local"] = 0, !["live"] = 1]
               /\ tasksMade' = tasksMade \cup {"live"}
               /\ gResult' = "Ok"
               /\ UNCHANGED <<linkUp, disconnects, discReply, gLogged>>
          ELSE /\ refs' = NoRefs
               /\ gResult' = "Err:live"
               /\ DropGuard
               /\ UNCHANGED tasksMade
    /\ gPc' = "returned"
    /\ UNCHANGED <<liveCfg, gConnect, guardMade>>
    /\ UNCHANGED notGuard

\* a task ends and drops its reference to the interface
TaskRelease(t) ==
    /\ gPc = "returned"
    /\ gResult = "Ok"
    /\ refs[t] > 0
    /\ refs' = [refs EXCEPT ![t] = 0]
    /\ IF LastReference(refs, t)
       THEN DropGuard
       ELSE UNCHANGED <<linkUp, disconnects, discReply, gLogged>>
    /\ UNCHANGED <<gPc, liveCfg, gConnect, guardMade, tasksMade, gResult>>
    /\ UNCHANGED notGuard

TaskReleases == \E t \in Tasks : TaskRelease(t)

NextGuard ==
    \/ GuardNewInterface
    \/ GuardConnectStep
    \/ GuardConnect
    \/ GuardSetTime
    \/ CreateEventTask
    \/ CreateControlTask
    \/ CreateDownloadTask
    \/ CreateTasksReturn
    \/ CreateLiveTask
    \/ TaskReleases

(***************************************************************************)
(* CameraClient::ensure_mode                                               *)
(***************************************************************************)

\* the attempts of ensure_mode
MAX_ATTEMPTS == 10

\* the operating modes ensure_mode is called with
OpModes == {2, 4}

\* what the state read from the device holds for OperatingMode: a mode, or
\* no UINT8 value
NoMode == 0

\* `retries < 10`
MayAttempt(r) == r < MAX_ATTEMPTS

InitModeRest ==
    /\ modePc = "idle"
    /\ modeRetries = 0
    /\ modeSets = 0
    /\ confirmed = FALSE
    /\ modeResult = "none"

\* ensure_mode is about to be called, the device in any mode
InitMode ==
    /\ InitModeRest
    /\ mode \in OpModes
    /\ opMode \in OpModes \cup {NoMode}

InitModeQuiet ==
    /\ InitModeRest
    /\ mode = 2
    /\ opMode = 2

\* ensure_mode(mode): retries = 0
EnsureModeCall ==
    /\ modePc = "idle"
    /\ modePc' = "loop"
    /\ modeRetries' = 0
    /\ UNCHANGED <<mode, opMode, modeSets, confirmed, modeResult>>
    /\ UNCHANGED notMode

\* one pass of the loop up to the comparison: self.iface.update()?, then the
\* read-back is compared with mode
EnsureModeRead ==
    /\ modePc = "loop"
    /\ MayAttempt(modeRetries)
    /\ \E ok \in BOOLEAN :
          IF ~ok
          THEN /\ modePc' = "returned"
               /\ modeResult' = "Err"
               /\ UNCHANGED confirmed
          ELSE IF opMode = mode
               THEN /\ modePc' = "settle"
                    /\ confirmed' = TRUE
                    /\ UNCHANGED modeResult
               ELSE /\ modePc' = "set"
                    /\ UNCHANGED <<confirmed, modeResult>>
    /\ UNCHANGED <<mode, modeRetries, opMode, modeSets>>
    /\ UNCHANGED notMode

\* self.iface.set(OperatingMode, mode)?; delay; retries += 1.  The device
\* changes its mode or, being busy, does not.
EnsureModeSet ==
    /\ modePc = "set"
    /\ \E ok \in BOOLEAN :
          IF ~ok
          THEN /\ modePc' = "returned"
               /\ modeResult' = "Err"
               /\ UNCHANGED <<modeRetries, opMode>>
          ELSE /\ modePc' = "loop"
               /\ modeRetries' = modeRetries + 1
               /\ opMode' \in {opMode, mode}
               /\ UNCHANGED modeResult
    /\ modeSets' = modeSets + 1
    /\ UNCHANGED <<mode, confirmed>>
    /\ UNCHANGED notMode

\* the loop ends because retries reached 10
EnsureModeGiveUp ==
    /\ modePc = "loop"
    /\ ~MayAttempt(modeRetries)
    /\ modePc' = "settle"
    /\ UNCHANGED <<mode, modeRetries, opMode, modeSets, confirmed, modeResult>>
    /\ UNCHANGED notMode

\* delay; Ok(())
EnsureModeReturn ==
    /\ modePc = "settle"
    /\ modePc' = "returned"
    /\ modeResult' = "Ok"
    /\ UNCHANGED <<mode, modeRetries, opMode, modeSets, confirmed>>
    /\ UNCHANGED notMode

NextMode ==
    \/ EnsureModeCall
    \/ EnsureModeRead
    \/ EnsureModeSet
    \/ EnsureModeGiveUp
    \/ EnsureModeReturn


(***************************************************************************)
(* ensure(property, value): write, then poll until the value reads back    *)
(***************************************************************************)

\* the properties ensure is called with: ZoomAbsolutePosition, IntervalTime,
\* ExposureMode
EnsuredProps == {"ZoomAbsolutePosition", "IntervalTime", "ExposureMode"}

\* the values of a property
PropValues == 0..MaxPropValue

\* the read-back confirms the write
ReadBackMatches_Never(read, value) == FALSE

ReadBackMatches(read, value) == read = value

\* another poll is allowed
MayPoll(n) == n < EnsureRetries

InitEnsureRest ==
    /\ ensPc = "idle"
    /\ ensWrites = 0
    /\ pollLog = <<>>
    /\ ensResult = "none"

\* ensure is about to be called, on a device that shows a written value from
\* some poll on or never
InitEnsure ==
    /\ InitEnsureRest
    /\ ensProp \in EnsuredProps
    /\ ensValue \in PropValues
    /\ devProps \in [EnsuredProps -> PropValues]
    /\ reflectAt \in 0..(EnsureRetries + 1)

InitEnsureQuiet ==
    /\ InitEnsureRest
    /\ ensProp = "ZoomAbsolutePosition"
    /\ ensValue = 0
    /\ devProps = [p \in EnsuredProps |-> 0]
    /\ reflectAt = 0

\* the write: set(property, value), not confirmed by the device
EnsureWrite ==
    /\ ensPc = "idle"
    /\ ensPc' = "poll"
    /\ ensWrites' = ensWrites + 1
    /\ UNCHANGED <<ensProp, ensValue, devProps, reflectAt, pollLog, ensResult>>
    /\ UNCHANGED notEns

\* one poll: query the device and compare the read-back with the value
EnsurePoll ==
    /\ ensPc = "poll"
    /\ MayPoll(Len(pollLog))
    /\ LET k == Len(pollLog) + 1
           shown == IF reflectAt # 0 /\ k >= reflectAt
                    THEN [devProps EXCEPT ![ensProp] = ensValue]
                    ELSE devProps
       IN /\ devProps' = shown
          /\ pollLog' = Append(pollLog, shown[ensProp])
          /\ IF ReadBackMatches(shown[ensProp], ensValue)
             THEN ensPc' = "returned" /\ ensResult' = "Ok"
             ELSE UNCHANGED <<ensPc, ensResult>>
    /\ UNCHANGED <<ensProp, ensValue, reflectAt, ensWrites>>
    /\ UNCHANGED notEns

\* the retries are exhausted
EnsureGiveUp ==
    /\ ensPc = "poll"
    /\ ~MayPoll(Len(pollLog))
    /\ ensPc' = "returned"
    /\ ensResult' = "Err"
    /\ UNCHANGED <<ensProp, ensValue, devProps, reflectAt, ensWrites, pollLog>>
    /\ UNCHANGED notEns

NextEnsure ==
    \/ EnsureWrite
    \/ EnsurePoll
    \/ EnsureGiveUp


(***************************************************************************)
(* cmd_capture: the race for the image confirmation                        *)
(***************************************************************************)

\* the timeout of the confirmation, in ms
CONFIRM_TIMEOUT == 3000

\* the times at which a future may become ready
CapTimes == {0, CONFIRM_TIMEOUT - 1, CONFIRM_TIMEOUT, CONFIRM_TIMEOUT + 1}

\* futures::future::select: the first future is polled first
Select_LeftOnly(l, r) == IF l THEN "Left" ELSE "Pending"

Select(l, r) == IF l THEN "Left" ELSE IF r THEN "Right" ELSE "Pending"

\* the shutter sequence is done, the confirmation wait is about to begin
InitCaptureRest ==
    /\ capPc = "confirm"
    /\ capNow = 0
    /\ watchSt = "pending"
    /\ waitSt = "pending"
    /\ capResult = "none"

InitCapture ==
    /\ InitCaptureRest
    /\ watchAt \in CapTimes
    /\ watchRes \in {"ok", "err"}
    /\ waitAt \in CapTimes
    /\ waitRes \in {"ok", "err"}

InitCaptureQuiet ==
    /\ InitCaptureRest
    /\ watchAt = 0
    /\ watchRes = "ok"
    /\ waitAt = 0
    /\ waitRes = "ok"

\* the times at which the task is woken: a future is ready or the timer fires
WakeTimes == {watchAt, waitAt, CONFIRM_TIMEOUT}

\* one poll of timeout(3000 ms, select(watch, wait)): the select first, then
\* the timer; then the match on the result
CapturePoll ==
    /\ capPc = "confirm"
    /\ LET res == Select(watchAt <= capNow, waitAt <= capNow) IN
          CASE res = "Left" ->
                  /\ watchSt' = "ready"
                  /\ waitSt' = "dropped"
                  /\ capResult' = IF watchRes = "ok" THEN "Ok" ELSE "Err:watch"
                  /\ capPc' = "returned"
                  /\ UNCHANGED capNow
            [] res = "Right" ->
                  /\ waitSt' = "ready"
                  /\ watchSt' = "dropped"
                  /\ capResult' = IF waitRes = "ok" THEN "Ok" ELSE "Err:wait"
                  /\ capPc' = "returned"
                  /\ UNCHANGED capNow
            [] res = "Pending" /\ capNow >= CONFIRM_TIMEOUT ->
                  /\ watchSt' = "dropped"
                  /\ waitSt' = "dropped"
                  /\ capResult' = "Err:timed out"
                  /\ capPc' = "returned"
                  /\ UNCHANGED capNow
            [] OTHER ->
                  \* pending: the task sleeps until it is woken
                  /\ capNow' = CHOOSE t \in WakeTimes :
                                  /\ t > capNow
                                  /\ \A u \in WakeTimes : u > capNow => t <= u
                  /\ UNCHANGED <<capPc, watchSt, waitSt, capResult>>
    /\ UNCHANGED <<watchAt, watchRes, waitAt, waitRes>>
    /\ UNCHANGED notCap

NextCapture ==
    \/ CapturePoll


(***************************************************************************)
(* The wire codecs of ShutterSpeed, Aperture and Iso (state.rs)            *)
(***************************************************************************)

\* the largest u16
U16_MAX == 65535

\* A u64 is written as its four 16-bit words, the highest first, so that
\* `(n >> 16) & 0xFFFF` is the third word and `n & 0xFFFF` the fourth.
U64(hi, lo) == <<0, 0, hi, lo>>

\* 0xFFFF_FFFE
SHUTTER_BULB == U64(65535, 65534)

\* 0x00FF_FFFF
ISO_AUTO == U64(255, 65535)

\* 0xFFFE
APERTURE_UNDEFINED == U64(0, 65534)

Bulb == [tag |-> "Bulb"]

Fraction(n, d) == [tag |-> "Fraction", numerator |-> n, denominator |-> d]

IsoAuto == [tag |-> "Auto"]

IsoValue(n) == [tag |-> "Value", value |-> n]

ApertureUndefined == [tag |-> "Undefined"]

ApertureValue(n) == [tag |-> "Value", value |-> n]

\* ShutterSpeed::to_u64
ShutterSpeed_to_u64(v) ==
    IF v.tag = "Bulb" THEN SHUTTER_BULB ELSE U64(v.numerator, v.denominator)

\* ShutterSpeed::from_u64
ShutterSpeed_from_u64(n) ==
    IF n = SHUTTER_BULB THEN <<Bulb>> ELSE <<Fraction(n[3], n[4])>>

\* Aperture::to_u64
Aperture_to_u64(v) ==
    IF v.tag = "Undefined" THEN APERTURE_UNDEFINED ELSE U64(0, v.value)

\* Aperture::from_u64
Aperture_from_u64(n) ==
    IF n = APERTURE_UNDEFINED THEN <<ApertureUndefined>> ELSE <<ApertureValue(n[4])>>

\* Iso::to_u64
Iso_to_u64(v) ==
    IF v.tag = "Auto" THEN ISO_AUTO ELSE U64(0, v.value)

\* Iso::from_u64
Iso_from_u64_Narrow(n) ==
    IF n = ISO_AUTO THEN <<IsoAuto>>
    ELSE IF n[1] = 0 /\ n[2] = 0 /\ n[3] = 0 THEN <<IsoValue(n[4])>> ELSE <<>>

Iso_from_u64(n) ==
    IF n = ISO_AUTO THEN <<IsoAuto>> ELSE <<IsoValue(n[4])>>

\* the 16-bit numbers drawn: those near 0 and those near 65535
U16Samples == (0..MaxEdge) \cup ((U16_MAX - MaxEdge)..U16_MAX)

\* the values of each type
CodecValues(kind) ==
    CASE kind = "ShutterSpeed" ->
            {Bulb} \cup {Fraction(n, d) : n \in U16Samples, d \in U16Samples}
      [] kind = "Aperture" ->
            {ApertureUndefined} \cup {ApertureValue(n) : n \in U16Samples}
      [] kind = "Iso" ->
            {IsoAuto} \cup {IsoValue(n) : n \in U16Samples}

\* the wire values drawn: 16 bits wide, up to 32 bits wide, and wider
WireSamples ==
    {<<0, w, hi, lo>> : w \in {0, 1}, hi \in {0, 1, 255, U16_MAX}, lo \in U16Samples}

CodecKinds == {"ShutterSpeed", "Aperture", "Iso"}

to_u64(kind, v) ==
    CASE kind = "ShutterSpeed" -> ShutterSpeed_to_u64(v)
      [] kind = "Aperture" -> Aperture_to_u64(v)
      [] kind = "Iso" -> Iso_to_u64(v)

from_u64(kind, n) ==
    CASE kind = "ShutterSpeed" -> ShutterSpeed_from_u64(n)
      [] kind = "Aperture" -> Aperture_from_u64(n)
      [] kind = "Iso" -> Iso_from_u64(n)

\* a value to encode, or a wire value to decode
InitCodec ==
    /\ codecKind \in CodecKinds
    /\ codecOut = <<>>
    /\ \/ /\ codecPc = "value"
          /\ codecVal \in {<<v>> : v \in CodecValues(codecKind)}
          /\ codecWire = <<>>
       \/ /\ codecPc = "wire"
          /\ codecVal = <<>>
          /\ codecWire \in WireSamples

InitCodecQuiet ==
    /\ codecKind = "Iso"
    /\ codecOut = <<>>
    /\ codecPc = "value"
    /\ codecVal = <<IsoAuto>>
    /\ codecWire = <<>>

\* v.to_u64()
CodecEncode ==
    /\ codecPc = "value"
    /\ codecWire' = to_u64(codecKind, codecVal[1])
    /\ codecPc' = "wire"
    /\ UNCHANGED <<codecKind, codecVal, codecOut>>
    /\ UNCHANGED notCodec

\* T::from_u64(n)
CodecDecode ==
    /\ codecPc = "wire"
    /\ codecOut' = from_u64(codecKind, codecWire)
    /\ codecPc' = "done"
    /\ UNCHANGED <<codecKind, codecVal, codecWire>>
    /\ UNCHANGED notCodec

NextCodec ==
    \/ CodecEncode
    \/ CodecDecode


(***************************************************************************)
(* CameraInterface::query                                                  *)
(***************************************************************************)

\* two of the codes of PropertyCode: OperatingMode, ShootingFileInfo
KnownPropertyCodes == {55010, 54982}

\* a code that PropertyCode does not have
UnknownPropertyCode == 53505

\* PropertyCode::from_u16: <<code>> for Some(code), <<>> for None
PropertyCode_from_u16_Any(c) == <<c>>

PropertyCode_from_u16(c) == IF c \in KnownPropertyCodes THEN <<c>> ELSE <<>>

\* the entries a device may send: ptp::PropInfo with its property_code
PropInfos ==
    [property_code : KnownPropertyCodes \cup {UnknownPropertyCode},
     current : 0..MaxPropValue]

\* the replies: a count prefix and entries; the entries may be fewer or more
\* than the prefix announces, and may repeat a code
Replies ==
    [count : 0..MaxEntries, entries : SeqsUpTo(PropInfos, MaxEntries)]

\* HashMap::insert: the entry replaces the one with the same key
MapInsert(map, code, info) ==
    {e \in map : e.code # code} \cup {[code |-> code, info |-> info]}

InitQueryRest ==
    /\ qPc = "start"
    /\ qRead = 0
    /\ qIter = 0
    /\ num_entries = 0
    /\ properties = {}
    /\ qResult = "none"

InitQuery == InitQueryRest /\ qReply \in Replies

InitQueryQuiet == InitQueryRest /\ qReply = [count |-> 0, entries |-> <<>>]

\* self.camera.command(SdioGetAllExtDevicePropInfo, ..)?; read_ptp_u8()?
QueryCommand ==
    /\ qPc = "start"
    /\ \E ok \in BOOLEAN :
          IF ok
          THEN /\ num_entries' = qReply.count
               /\ qPc' = "loop"
               /\ UNCHANGED qResult
          ELSE /\ qPc' = "returned"
               /\ qResult' = "Err"
               /\ UNCHANGED num_entries
    /\ UNCHANGED <<qReply, qRead, qIter, properties>>
    /\ UNCHANGED notQuery

\* one iteration: PropInfo::decode(&mut cursor)?, then the entry is inserted
\* under its code or skipped
QueryEntry ==
    /\ qPc = "loop"
    /\ qIter < num_entries
    /\ IF qRead >= Len(qReply.entries)
       THEN \* the reply ends before the entry: decode fails
            /\ qPc' = "returned"
            /\ qResult' = "Err"
            /\ UNCHANGED <<qRead, qIter, properties>>
       ELSE LET current_prop == qReply.entries[qRead + 1]
                code == PropertyCode_from_u16(current_prop.property_code)
            IN /\ qRead' = qRead + 1
               /\ qIter' = qIter + 1
               /\ properties' = IF code = <<>>
                                THEN properties
                                ELSE MapInsert(properties, code[1], current_prop)
               /\ UNCHANGED <<qPc, qResult>>
    /\ UNCHANGED <<qReply, num_entries>>
    /\ UNCHANGED notQuery

\* Ok(properties)
QueryReturn ==
    /\ qPc = "loop"
    /\ qIter >= num_entries
    /\ qPc' = "returned"
    /\ qResult' = "Ok"
    /\ UNCHANGED <<qReply, qRead, qIter, num_entries, properties>>
    /\ UNCHANGED notQuery

NextQuery ==
    \/ QueryCommand
    \/ QueryEntry
    \/ QueryReturn


(***************************************************************************)
(* run_tasks: the supervisor, the interrupt and the force-quit timer       *)
(***************************************************************************)

\* the seconds the force-quit timer sleeps
GRACE == 5

\* some of the tasks run_tasks spawns
SupTasks == {"pixhawk", "camera", "cli"}

\* PixhawkClient::run: `self.init().await?` and `self.recv().await?`
RunAfterIo_Ignore(failed) == "running"

RunAfterIo(failed) == IF failed THEN "err" ELSE "running"

\* interrupt_sender.send(()): every receiver gets the interrupt
Broadcast == [t \in SupTasks |-> TRUE]

\* broadcast::channel(1): a receiver that has not taken the last interrupt
\* when the next one is sent has lagged
Lag(box, lag) == [t \in SupTasks |-> lag[t] \/ box[t]]

\* the tasks are spawned, run_tasks is in its loop
InitSupervisor ==
    /\ procSt = "running"
    /\ taskSt = [t \in SupTasks |-> "running"]
    /\ linkIo = "none"
    /\ joined = {}
    /\ inbox = [t \in SupTasks |-> FALSE]
    /\ interrupted = FALSE
    /\ causes = {}
    /\ since = 0
    /\ watchdogs = {}
    /\ lagged = [t \in SupTasks |-> FALSE]

InitSupervisorQuiet == InitSupervisor

\* the ctrl+c handler: the interrupt is sent
CtrlC ==
    /\ procSt = "running"
    /\ inbox' = Broadcast
    /\ lagged' = Lag(inbox, lagged)
    /\ interrupted' = TRUE
    /\ causes' = causes \cup {"ctrlc"}
    /\ UNCHANGED <<procSt, taskSt, linkIo, joined, since, watchdogs>>
    /\ UNCHANGED notSup

\* the autopilot link reads from or writes to its socket, in init or in
\* recv; an error ends run with that error
LinkIo ==
    /\ procSt = "running"
    /\ taskSt["pixhawk"] = "running"
    /\ \E op \in {"read", "write"}, failed \in BOOLEAN :
          /\ linkIo' = IF failed THEN op ELSE linkIo
          /\ taskSt' = [taskSt EXCEPT !["pixhawk"] = RunAfterIo(failed)]
    /\ UNCHANGED <<procSt, joined, inbox, interrupted, causes, since, watchdogs, lagged>>
    /\ UNCHANGED notSup

\* a task finds the interrupt at one of its safe points and ends
TaskObserveInterrupt(t) ==
    /\ procSt = "running"
    /\ taskSt[t] = "running"
    /\ inbox[t]
    /\ taskSt' = [taskSt EXCEPT ![t] = "ok"]
    /\ inbox' = [inbox EXCEPT ![t] = FALSE]
    /\ lagged' = [lagged EXCEPT ![t] = FALSE]
    /\ UNCHANGED <<procSt, linkIo, joined, interrupted, causes, since, watchdogs>>
    /\ UNCHANGED notSup

\* a task ends by itself: it returns, fails or panics
TaskEnd(t) ==
    /\ procSt = "running"
    /\ taskSt[t] = "running"
    /\ t # "pixhawk"
    /\ \E how \in {"ok", "err", "panicked"} :
          taskSt' = [taskSt EXCEPT ![t] = how]
    /\ UNCHANGED <<procSt, linkIo, joined, inbox, interrupted, causes, since, watchdogs, lagged>>
    /\ UNCHANGED notSup

\* one pass of run_tasks' loop: select_all yields a task that ended
SupervisorJoin(t) ==
    /\ procSt = "running"
    /\ t \notin joined
    /\ taskSt[t] # "running"
    /\ CASE taskSt[t] = "panicked" ->
               \* `result?`: run_tasks returns the join error
               /\ procSt' = "exited:err"
               /\ UNCHANGED <<joined, inbox, interrupted, causes, watchdogs, lagged>>
         [] taskSt[t] = "err" ->
               /\ joined' = joined \cup {t}
               /\ inbox' = Broadcast
               /\ lagged' = Lag(inbox, lagged)
               /\ interrupted' = TRUE
               /\ causes' = causes \cup {t}
               /\ watchdogs' = watchdogs \cup {since}
               /\ procSt' = IF joined' = SupTasks THEN "exited:ok" ELSE procSt
         [] taskSt[t] = "ok" ->
               /\ joined' = joined \cup {t}
               /\ procSt' = IF joined' = SupTasks THEN "exited:ok" ELSE procSt
               /\ UNCHANGED <<inbox, interrupted, causes, watchdogs, lagged>>
    /\ UNCHANGED <<taskSt, linkIo, since>>
    /\ UNCHANGED notSup

\* a force-quit timer has slept its 5 seconds: exit(1)
WatchdogFire ==
    /\ procSt = "running"
    /\ \E w \in watchdogs : since >= w + GRACE
    /\ procSt' = "exited:forced"
    /\ UNCHANGED <<taskSt, linkIo, joined, inbox, interrupted, causes, since, watchdogs, lagged>>
    /\ UNCHANGED notSup

\* a second passes after the interrupt, unless a force-quit timer is due
SupTick ==
    /\ procSt = "running"
    /\ interrupted
    /\ since <= GRACE
    /\ \A w \in watchdogs : since < w + GRACE
    /\ since' = since + 1
    /\ UNCHANGED <<procSt, taskSt, linkIo, joined, inbox, interrupted, causes, watchdogs, lagged>>
    /\ UNCHANGED notSup

TaskObserves == \E t \in SupTasks : TaskObserveInterrupt(t)

TaskEnds == \E t \in SupTasks : TaskEnd(t)

SupervisorJoins == \E t \in SupTasks : SupervisorJoin(t)

NextSupervisor ==
    \/ CtrlC
    \/ LinkIo
    \/ TaskObserves
    \/ TaskEnds
    \/ SupervisorJoins
    \/ WatchdogFire
    \/ SupTick

(***************************************************************************)
(* cmd_continuous_capture: the Interval request                            *)
(***************************************************************************)

\* the limits of the interval, in tenths of a second, and its granularity
MIN_INTERVAL == 10

MAX_INTERVAL == 300

INTERVAL_STEP == 5

\* The requests: an f32 number of seconds.  h is the product interval * 10.
\* in hundredths of a second, drawn in steps of a twentieth of a second, so
\* that every number of tenths comes with and without a fraction; besides
\* the range around the limits there are products beyond u16 and the product
\* that is not a number.
IntervalRequests ==
    [nan : {FALSE},
     h : {5 * q : q \in -4..MaxTwentieths} \cup {655350, 655360, 655460, 7000000}]
        \cup {[nan |-> TRUE, h |-> 0]}

\* `as u16` of a float: the fraction is dropped, a value below the range
\* becomes 0, one above it u16::MAX, not-a-number 0.
as_u16(r) ==
    IF r.nan \/ r.h < 0 THEN 0
    ELSE IF r.h \div 10 > U16_MAX THEN U16_MAX
    ELSE r.h \div 10

IntervalError_NoStep(t) ==
    IF t < MIN_INTERVAL THEN "minimum interval is 1 second"
    ELSE IF t > MAX_INTERVAL THEN "maximum interval is 30 seconds"
    ELSE "none"

\* the three bail!s, in the order of the code
IntervalError(t) ==
    IF t < MIN_INTERVAL THEN "minimum interval is 1 second"
    ELSE IF t > MAX_INTERVAL THEN "maximum interval is 30 seconds"
    ELSE IF t % INTERVAL_STEP # 0 THEN "valid intervals are in increments of 0.5 seconds"
    ELSE "none"

\* no result yet
IntervalPending == [ok |-> FALSE, why |-> "pending"]

InitIntervalQuiet ==
    /\ ivPc = "idle"
    /\ ivReq = [nan |-> FALSE, h |-> 0]
    /\ ivT = 0
    /\ ivWrites = <<>>
    /\ ivResult = IntervalPending

InitInterval == InitIntervalQuiet

\* a CameraCommandContinuousCaptureRequest::Interval { interval } arrives
IntervalCall ==
    /\ ivPc = "idle"
    /\ \E r \in IntervalRequests : ivReq' = r
    /\ ivPc' = "check"
    /\ ivT' = 0
    /\ ivWrites' = <<>>
    /\ ivResult' = IntervalPending
    /\ UNCHANGED notIv

\* the cast and the three range checks
IntervalCheck ==
    /\ ivPc = "check"
    /\ LET t == as_u16(ivReq)
       IN /\ ivT' = t
          /\ IF IntervalError(t) = "none"
             THEN ivPc' = "ensure" /\ UNCHANGED ivResult
             ELSE ivPc' = "idle" /\ ivResult' = [ok |-> FALSE, why |-> IntervalError(t)]
    /\ UNCHANGED <<ivReq, ivWrites>>
    /\ UNCHANGED notIv

\* ensure(&interface, IntervalTime, UINT16(interval))
\*     .await.context("failed to set camera interval")?
IntervalEnsure ==
    /\ ivPc = "ensure"
    /\ ivWrites' = Append(ivWrites, [prop |-> "IntervalTime", value |-> ivT])
    /\ \E ok \in BOOLEAN :
          ivResult' = IF ok THEN [ok |-> TRUE, why |-> "none"]
                      ELSE [ok |-> FALSE, why |-> "failed to set camera interval"]
    /\ ivPc' = "idle"
    /\ UNCHANGED <<ivReq, ivT>>
    /\ UNCHANGED notIv

NextInterval ==
    \/ IntervalCall
    \/ IntervalCheck
    \/ IntervalEnsure

(***************************************************************************)
(* Specifications: one per part, the other parts at rest                   *)
(***************************************************************************)

\* the parts of the first half of the module at rest, and those of the second
InitEarlyQuiet ==
    /\ InitBus /\ InitCamera /\ InitLinkQuiet
    /\ InitConnectQuiet /\ InitGuardQuiet /\ InitModeQuiet

InitLateQuiet ==
    /\ InitEnsureQuiet
    /\ InitCaptureQuiet
    /\ InitCodecQuiet
    /\ InitQueryQuiet
    /\ InitSupervisorQuiet
    /\ InitIntervalQuiet

InitSpecBus == InitBus /\ InitCamera /\ InitLinkQuiet /\ InitConnectQuiet /\ InitGuardQuiet /\ InitModeQuiet /\ InitLateQuiet

SpecBus == InitSpecBus /\ [][NextBus]_vars

InitSpecCamera == InitCamera /\ InitBus /\ InitLinkQuiet /\ InitConnectQuiet /\ InitGuardQuiet /\ InitModeQuiet /\ InitLateQuiet

SpecCamera == InitSpecCamera /\ [][NextCamera]_vars

\* The steps that the scheduler takes when they are possible: everything but
\* a caller starting a command or abandoning one, and the interrupt.
BusProgress ==
    \/ \E p \in Producers : ProducerEnqueue(p)
    \/ \E p \in Producers : ProducerSendFails(p)
    \/ \E p \in Producers : ProducerAwait(p)
    \/ ConsumerTryRecv
    \/ ConsumerExec
    \/ ConsumerRespond
    \/ ConsumerSuccess
    \/ ConsumerError
    \/ ConsumerSleep

InitSpecReply == InitSpecBus

SpecReply == InitSpecReply /\ [][NextBus]_vars /\ WF_vars(BusProgress)

InitSpecFraming == InitFraming /\ InitBus /\ InitCamera /\ InitConnectQuiet /\ InitGuardQuiet /\ InitModeQuiet /\ InitLateQuiet

SpecFraming == InitSpecFraming /\ [][NextFraming]_vars

InitSpecLink == InitLink /\ InitBus /\ InitCamera /\ InitConnectQuiet /\ InitGuardQuiet /\ InitModeQuiet /\ InitLateQuiet

SpecLink == InitSpecLink /\ [][NextLink]_vars

InitSpecInit == InitRun /\ InitBus /\ InitCamera /\ InitConnectQuiet /\ InitGuardQuiet /\ InitModeQuiet /\ InitLateQuiet

SpecInit == InitSpecInit /\ [][NextInit]_vars

InitSpecConnect == InitConnect /\ InitBus /\ InitCamera /\ InitLinkQuiet /\ InitGuardQuiet /\ InitModeQuiet /\ InitLateQuiet

SpecConnect == InitSpecConnect /\ [][NextConnect]_vars

InitSpecGuard ==
    InitGuard /\ InitBus /\ InitCamera /\ InitLinkQuiet /\ InitConnectQuiet /\ InitModeQuiet
    /\ InitLateQuiet

SpecGuard == InitSpecGuard /\ [][NextGuard]_vars

InitSpecMode ==
    InitMode /\ InitBus /\ InitCamera /\ InitLinkQuiet /\ InitConnectQuiet /\ InitGuardQuiet
    /\ InitLateQuiet

SpecMode == InitSpecMode /\ [][NextMode]_vars

InitSpecEnsure ==
    /\ InitEnsure
    /\ InitEarlyQuiet
    /\ InitCaptureQuiet
    /\ InitCodecQuiet
    /\ InitQueryQuiet
    /\ InitSupervisorQuiet
    /\ InitIntervalQuiet

SpecEnsure == InitSpecEnsure /\ [][NextEnsure]_vars

InitSpecCapture ==
    /\ InitCapture
    /\ InitEarlyQuiet
    /\ InitEnsureQuiet
    /\ InitCodecQuiet
    /\ InitQueryQuiet
    /\ InitSupervisorQuiet
    /\ InitIntervalQuiet

SpecCapture == InitSpecCapture /\ [][NextCapture]_vars

InitSpecCodec ==
    /\ InitCodec
    /\ InitEarlyQuiet
    /\ InitEnsureQuiet
    /\ InitCaptureQuiet
    /\ InitQueryQuiet
    /\ InitSupervisorQuiet
    /\ InitIntervalQuiet

SpecCodec == InitSpecCodec /\ [][NextCodec]_vars

InitSpecQuery ==
    /\ InitQuery
    /\ InitEarlyQuiet
    /\ InitEnsureQuiet
    /\ InitCaptureQuiet
    /\ InitCodecQuiet
    /\ InitSupervisorQuiet
    /\ InitIntervalQuiet

SpecQuery == InitSpecQuery /\ [][NextQuery]_vars

InitSpecSupervisor ==
    /\ InitSupervisor
    /\ InitEarlyQuiet
    /\ InitEnsureQuiet
    /\ InitCaptureQuiet
    /\ InitCodecQuiet
    /\ InitQueryQuiet
    /\ InitIntervalQuiet

SpecSupervisor == InitSpecSupervisor /\ [][NextSupervisor]_vars

\* the autopilot link from init on, with the interrupt sent at any time; the
\* link task keeps being scheduled and its timers fire
NextShutdown ==
    \/ NextInit
    \/ CtrlC

InitSpecShutdown == InitRun /\ InitBus /\ InitCamera /\ InitConnectQuiet /\ InitGuardQuiet /\ InitModeQuiet /\ InitLateQuiet

SpecShutdown == InitSpecShutdown /\ [][NextShutdown]_vars /\ WF_vars(NextInit)

\* the receive loop on a connection the autopilot closes; the link task keeps
\* being scheduled
InitSpecClosed == InitClosed /\ InitBus /\ InitCamera /\ InitConnectQuiet /\ InitGuardQuiet /\ InitModeQuiet /\ InitLateQuiet

SpecClosed == InitSpecClosed /\ [][NextFraming]_vars /\ WF_vars(NextFraming)

\* set_param / send_command on a stream delivered in any pieces
InitSpecCancel == InitCancel /\ InitBus /\ InitCamera /\ InitConnectQuiet /\ InitGuardQuiet /\ InitModeQuiet /\ InitLateQuiet

SpecCancel == InitSpecCancel /\ [][NextLink]_vars

\* recv and handle under both callers of recv
NextHandle ==
    \/ NextLink
    \/ RunRecv
    \/ RunCheckInterrupt

InitSpecHandle == InitHandle /\ InitBus /\ InitCamera /\ InitConnectQuiet /\ InitGuardQuiet /\ InitModeQuiet /\ InitLateQuiet

SpecHandle == InitSpecHandle /\ [][NextHandle]_vars

InitSpecInterval ==
    /\ InitInterval
    /\ InitEarlyQuiet
    /\ InitEnsureQuiet
    /\ InitCaptureQuiet
    /\ InitCodecQuiet
    /\ InitQueryQuiet
    /\ InitSupervisorQuiet

SpecInterval == InitSpecInterval /\ [][NextInterval]_vars

(***************************************************************************)
(* Claims about the command bus                                            *)
(***************************************************************************)

IsPrefix(s, t) == Len(s) <= Len(t) /\ \A i \in 1..Len(s) : s[i] = t[i]

\* C2: when the caller has dropped the receiving end of the reply channel
\* before the consumer replies, the consumer's reply step does not crash:
\* the result is discarded and the consumer goes on (to its sleep and the
\* next command) with the bus still open.
C2_AbandonedReplyDiscarded ==
    [][(consPc = "respond" /\ is_canceled(chan[consHeld]) /\ consPc' # "respond")
          => (consPc' = "sleep" /\ busOpen')]_vars

\* C3: the consumer's reply steps run in enqueue order, and the command the
\* consumer holds (is executing) is the oldest enqueued command that has not
\* been replied to: command k is replied to before command k+1 is started.
C3_RepliesInEnqueueOrder ==
    /\ IsPrefix(replyLog, enqLog)
    /\ consHeld # NoCmd =>
          /\ Len(replyLog) < Len(enqLog)
          /\ enqLog[Len(replyLog) + 1] = consHeld

\* Two commands were replied to in enqueue order although the later-created
\* command was enqueued first.
C3_Witness == Len(replyLog) >= 2 /\ replyLog[1] > replyLog[2]

\* C4: at most one result is ever sent on a command's reply channel.
C4_AtMostOneReply == \A c \in CmdIds : chan[c].sent <= 1

\* A reply was sent and received for one command while the consumer already
\* holds the next one.
C4_Witness ==
    \E c \in CmdIds : chan[c].sent = 1 /\ chan[c].rx = "received" /\ consHeld \notin {NoCmd, c}

C1_NoInterleaving ==
    /\ \A i, j, k \in 1..Len(devLog) :
          (i < j /\ j < k /\ devLog[i].op = devLog[k].op) => devLog[j].op = devLog[i].op
    /\ \A c \in Callers :
          (camPc[c] \in {"run", "return"} /\ camIssued[c] >= 1)
             => devLog[Len(devLog)].op = camOp[c].id

\* One caller is in the middle of its operation, after an earlier operation
\* of another caller, while the other caller is waiting to enter again.
C1_Witness ==
    \E c, d \in Callers :
        /\ c # d
        /\ camPc[c] = "run" /\ camIssued[c] >= 1
        /\ camPc[d] = "enter"
        /\ Len(devLog) > camIssued[c]

\* the shutter sequence of a capture: half-press, full press, and the
\* releases in reverse
ShutterOrder ==
    <<"S1Button:press", "S2Button:press", "S2Button:release", "S1Button:release">>

IsControl(e) == e.ev \notin {"mode", "enter", "release", "confirm"}

Controls(t) == SelectSeq(t, IsControl)

\* C38: a capture issues the shutter controls in the order S1 press, S2
\* press, S2 release, S1 release, all inside one exclusive enter that is
\* reached only after ensure_mode succeeded; after a failing control no later
\* control is sent, no confirmation wait is started, and the capture returns
\* the error.
C38_CaptureSequence ==
    \A c \in Callers :
        camOp[c].kind = "capture" =>
            LET t == camTrace[c]
                ctl == Controls(t)
                At(ev) == {i \in 1..Len(t) : t[i].ev = ev}
                Failed == ctl # <<>> /\ ~ctl[Len(ctl)].ok
            IN /\ Len(ctl) <= Len(ShutterOrder)
               /\ \A i \in 1..Len(ctl) : ctl[i].ev = ShutterOrder[i]
               /\ \A i \in 1..(Len(ctl) - 1) : ctl[i].ok
               /\ Cardinality(At("enter")) <= 1
               /\ Cardinality(At("release")) <= 1
               /\ \A i \in 1..Len(t) :
                     IsControl(t[i]) =>
                        /\ \E j \in At("enter") : j < i
                        /\ \A k \in At("release") : i < k
               /\ (t # <<>>) => t[1].ev = "mode"
               /\ Len(t) >= 2 => t[1].ok
               /\ \A i \in 2..Len(t) : t[i].ev # "mode"
               /\ (At("enter") # {} /\ At("release") = {}) => ifaceLock = c
               /\ \A i, j, k \in 1..Len(devLog) :
                     (i < j /\ j < k /\ devLog[i].op = camOp[c].id /\ devLog[k].op = camOp[c].id)
                        => devLog[j].op = camOp[c].id
               /\ At("confirm") # {} =>
                     /\ Len(ctl) = Len(ShutterOrder)
                     /\ \A i \in 1..Len(ctl) : ctl[i].ok
                     /\ At("release") # {}
               /\ Failed => camPc[c] \in {"return", "idle"} /\ camResult[c] = "Err"
               /\ (Failed /\ camPc[c] = "idle") => t[Len(t)].ev = "release"

\* A capture has returned the error of its second control, after an operation
\* of another caller reached the device.
C38_Witness ==
    \E c \in Callers :
        /\ camOp[c].kind = "capture"
        /\ camPc[c] = "idle"
        /\ Len(Controls(camTrace[c])) = 2
        /\ ~Controls(camTrace[c])[2].ok
        /\ camResult[c] = "Err"
        /\ \E i \in 1..Len(devLog) : devLog[i].op # camOp[c].id

(***************************************************************************)
(* Claims about the autopilot link                                         *)
(***************************************************************************)

ValidFrame(f) == f.good /\ f.msgid \in KnownMsgIds

MsgOf(f) == ParsePayload(f.msgid, f.payload)

\* the stream is exactly: a valid frame, a frame with a corrupted checksum,
\* a valid frame
IsValidCorruptValid(sc) ==
    /\ Len(sc.frames) = 3
    /\ sc.tail = <<>>
    /\ ValidFrame(sc.frames[1])
    /\ ~sc.frames[2].good
    /\ ValidFrame(sc.frames[3])

\* the whole stream has been read and recv waits for the socket
StreamDrained == wire = <<>> /\ linkPc \in {"read_hdr", "read_body"}

\* C6: on a stream that consists of a valid frame, a frame with a corrupted
\* checksum and one more valid frame, the successive calls of recv return
\* the two valid messages in stream order and no other message: what recv
\* has returned is always a prefix of those two, and it is both of them
\* once the stream has been read to its end.
C6_ValidCorruptValid ==
    IsValidCorruptValid(scenario) =>
        LET both == << MsgOf(scenario.frames[1]), MsgOf(scenario.frames[3]) >>
        IN /\ IsPrefix(handled, both)
           /\ StreamDrained => handled = both

\* the candidate frame recv is about to decode is an intact frame of a
\* message id outside the dialect
UnknownTypeAtMagic(b) ==
    /\ HasHeader(b)
    /\ ~NeedBody(b)
    /\ LET c == msg_content(b)
       IN /\ c[6] \notin KnownMsgIds
          /\ << c[7 + c[2]], c[8 + c[2]] >> = Checksum(SubSeq(c, 2, 6 + c[2]))

\* C7: when recv decodes a frame whose message type the decoder does not
\* recognise, it advances the buffer past that frame and goes on scanning;
\* it does not return an error to the run loop.
C7_UnknownTypeSkipped ==
    [][(linkPc = "decode" /\ UnknownTypeAtMagic(buf))
          => /\ linkPc' = "scan"
             /\ buf' = advance(buf, magic_position(buf) + msg_body_size(buf))]_vars

\* C8: a PARAM_VALUE acknowledgement whose value the requested parameter
\* type cannot represent makes set_param return an error value: the link
\* task does not panic.
C8_UnrepresentableValueIsError ==
    (/\ linkOp.name = "set_param"
     /\ wfmStatus = "ok"
     /\ linkPc # "ack"
     /\ ~NumCast(lastMsg.param_value, linkOp.ptype).some)
        => (linkPc = "idle" /\ opResult.kind = "Err")

\* a message satisfying the predicate was decoded by a recv that began
\* before the deadline
TimelyMatch ==
    \E i \in 1..Len(wfmSeen) : ~wfmSeen[i].late /\ Predicate(linkOp, wfmSeen[i].msg)

\* the wait has ended, not with an error of recv
WaitOver == wfmStatus \in {"ok", "timeout", "panic"}

\* C9: wait_for_message returns Ok(m) only for the first decoded message
\* that satisfies the predicate, and a wait in which no message satisfying
\* the predicate was decoded before the deadline ends with the timeout
\* error.
C9_WaitForMessage ==
    /\ wfmStatus = "ok" =>
          /\ Len(wfmSeen) >= 1
          /\ lastMsg = wfmSeen[Len(wfmSeen)].msg
          /\ Predicate(linkOp, lastMsg)
          /\ \A i \in 1..(Len(wfmSeen) - 1) : ~Predicate(linkOp, wfmSeen[i].msg)
    /\ (WaitOver /\ ~TimelyMatch) => wfmStatus = "timeout"

\* C10: send_command sends one COMMAND_LONG with its command; it returns
\* Ok(result) exactly when the first COMMAND_ACK of its command carries
\* ACCEPTED or IN_PROGRESS, an error with the result code when it carries
\* another result, and the timeout error when no acknowledgement of its
\* command was decoded within the 10 s.
C10_SendCommand ==
    linkOp.name = "send_command" =>
        /\ sent[Len(sent)] = [type |-> "COMMAND_LONG", command |-> linkOp.command]
        /\ opResult.kind = "Ok" => wfmStatus = "ok"
        /\ (wfmStatus = "ok" /\ linkPc = "idle") =>
              /\ lastMsg.type = "COMMAND_ACK" /\ lastMsg.command = linkOp.command
              /\ \A i \in 1..(Len(wfmSeen) - 1) : ~Predicate(linkOp, wfmSeen[i].msg)
              /\ IF lastMsg.result \in {MavResult.ACCEPTED, MavResult.IN_PROGRESS}
                 THEN opResult = [kind |-> "Ok", value |-> lastMsg.result]
                 ELSE opResult = [kind |-> "Err", why |-> "rejected", code |-> lastMsg.result]
        /\ (WaitOver /\ linkPc \in {"idle", "panicked"} /\ ~TimelyMatch) =>
              opResult = [kind |-> "Err", why |-> "timeout"]

\* C11: set_param sends one PARAM_SET with the id padded with zero
\* characters to 16; the acknowledgement it accepts is the first decoded
\* PARAM_VALUE whose 16-character id equals that padded id (PARAM_VALUE
\* messages of other parameters and other message types are skipped); and
\* when no such acknowledgement was decoded within the 10 s it returns an
\* error.
C11_SetParam ==
    linkOp.name = "set_param" =>
        /\ sent[Len(sent)].type = "PARAM_SET"
        /\ sent[Len(sent)].param_id = linkOp.param_id
        /\ opResult.kind = "Ok" => wfmStatus = "ok"
        /\ wfmStatus = "ok" =>
              /\ lastMsg.type = "PARAM_VALUE" /\ lastMsg.param_id = linkOp.param_id
              /\ \A i \in 1..(Len(wfmSeen) - 1) : ~Predicate(linkOp, wfmSeen[i].msg)
        /\ (WaitOver /\ linkPc \in {"idle", "panicked"} /\ ~TimelyMatch) =>
              opResult.kind = "Err"

\* the messages init sends when every step succeeds, in order
InitSends ==
    [k \in 1..Len(InitPlan) |->
        IF InitPlan[k].call = "set_param"
        THEN [type |-> "PARAM_SET", param_id |-> PadParamId(InitPlan[k].id),
              param_value |-> InitPlan[k].value, param_type |-> InitPlan[k].ptype]
        ELSE [type |-> "COMMAND_LONG", command |-> InitPlan[k].command]]

\* what has been sent is a beginning of init's sequence, nothing is sent
\* before a heartbeat was received, the receive loop runs only after the
\* whole sequence, and init does not end other than by returning
InitOrderly ==
    /\ IsPrefix(sent, InitSends)
    /\ sent # <<>> => \E i \in 1..Len(handled) : handled[i].type = "HEARTBEAT"
    /\ linkCtx = "run" => sent = InitSends
    /\ linkCtx = "init" => linkPc # "panicked"

\* C12: init sends nothing before a HEARTBEAT was received, then sends the
\* PARAM_SETs of CAM_DURATION, CAM_FEEDBACK_PIN, CAM_FEEDBACK_POL and the
\* DO_DIGICAM_CONTROL command in that order, each only after the step
\* before it returned Ok; run enters the receive loop only after the last
\* step returned Ok; and a step that fails or times out makes run return
\* the error (it does not end in another way) with nothing sent after it.
C12_InitSequence ==
    [][/\ InitOrderly'
       /\ sent' # sent => (opResult.kind = "Ok" /\ wfmStatus = "ok")
       /\ (linkCtx = "init" /\ linkCtx' = "run") => (sent = InitSends /\ opResult.kind = "Ok")
       /\ (linkCtx = "init" /\ linkPc = "idle" /\ opResult.kind = "Err")
             => (linkPc' = "failed" /\ sent' = sent)]_vars

(***************************************************************************)
(* Claims about the camera connection                                      *)
(***************************************************************************)

IsPhase(e, k) == e.cmd = "SdioConnect" /\ e.arg = k

IsInfo(e) == e.cmd = "SdioGetExtDeviceInfo"

\* the device-info requests the device saw, in order
InfoLog == SelectSeq(ptpLog, IsInfo)

\* open_session and every SDIO_Connect command of this call succeeded
PhasesSucceeded ==
    /\ session = "open"
    /\ \A i \in 1..Len(ptpLog) : ptpLog[i].reply # "err"

ConnectReturnedOk == connPc = "returned" /\ connResult = "Ok"

\* phase 3 is sent only right after a device-info request that succeeded,
\* and a device-info request only after phase 1 and phase 2 succeeded
HandshakeGuards ==
    \A i \in 1..Len(ptpLog) :
       /\ IsPhase(ptpLog[i], 3) =>
             /\ ptpLog[i].n = 1
             /\ i > 1 /\ IsInfo(ptpLog[i-1]) /\ ptpLog[i-1].reply = "ok"
       /\ IsInfo(ptpLog[i]) =>
             /\ \E j \in 1..(i-1) : IsPhase(ptpLog[j], 1) /\ ptpLog[j].reply = "ok"
             /\ \E j \in 1..(i-1) : IsPhase(ptpLog[j], 2) /\ ptpLog[j].reply = "ok"

C14_VersionCap ==
    /\ protocol_version \in {FIRST_VERSION, LAST_VERSION}
    /\ \A i \in 1..Len(InfoLog) : InfoLog[i].arg \in {FIRST_VERSION, LAST_VERSION}
    /\ ( /\ connPc = "returned"
         /\ PhasesSucceeded
         /\ \A i \in 1..Len(InfoLog) : InfoLog[i].reply = "auth" )
       => /\ connResult = "Err:unsupported firmware"
          /\ Len(InfoLog) = 2
          /\ InfoLog[1].arg = FIRST_VERSION /\ InfoLog[1].n = 1
          /\ InfoLog[2].arg = LAST_VERSION /\ InfoLog[2].n = 1

\* connect gave up on a device that always answered authentication failed
C14_Witness ==
    /\ connPc = "returned"
    /\ connResult = "Err:unsupported firmware"
    /\ PhasesSucceeded
    /\ Len(InfoLog) = 2
    /\ \A i \in 1..Len(InfoLog) : InfoLog[i].reply = "auth"

\* the device answered so far as in: transient error, transient error, info
TwoTransientThenOk ==
    \/ InfoLog = <<>>
    \/ /\ Len(InfoLog) = 1
       /\ InfoLog[1].reply = "other" /\ InfoLog[1].n <= 2
    \/ /\ Len(InfoLog) = 2
       /\ InfoLog[1].reply = "other" /\ InfoLog[1].n = 2
       /\ InfoLog[2].reply = "ok" /\ InfoLog[2].n = 1

\* C15: when the first two device-info requests fail with a transient error
\* and the third succeeds, connect succeeds after exactly three requests,
\* all at version 100.
C15_RetryKeepsVersion ==
    (connPc = "returned" /\ PhasesSucceeded /\ TwoTransientThenOk)
    => /\ connResult = "Ok"
       /\ Len(InfoLog) = 2
       /\ InfoLog[1].n + InfoLog[2].n = 3
       /\ InfoLog[1].arg = FIRST_VERSION
       /\ InfoLog[2].arg = FIRST_VERSION

\* connect succeeded on the third device-info request
C15_Witness ==
    /\ ConnectReturnedOk
    /\ Len(InfoLog) = 2
    /\ InfoLog[1].reply = "other" /\ InfoLog[1].n = 2
    /\ InfoLog[2].reply = "ok" /\ InfoLog[2].n = 1
    /\ InfoLog[1].arg = FIRST_VERSION /\ InfoLog[2].arg = FIRST_VERSION

\* C16: one connect call retries at most 1000 device-info requests that
\* failed with an error other than authentication failed, also when the
\* version is raised in between.
C16_RetryCap == retried <= MAX_RETRIES

\* C17: when connect returns an error, no session opened by the call is
\* left open and no handshake phase is left in effect; when it returns Ok,
\* the session is open and the three phases are complete.
C17_AllOrNothing ==
    connPc = "returned" =>
       IF connResult = "Ok"
       THEN session = "open" /\ devPhase = 3
       ELSE session = "closed" /\ devPhase = 0

(***************************************************************************)
(* Claims about the interface guard                                        *)
(***************************************************************************)

\* C18: the camera is disconnected exactly once per guard that was
\* constructed, and only when every holder of a reference to the shared
\* interface has released it; a failing disconnect is logged and changes
\* nothing else.
C18_DisconnectOnLastRelease ==
    /\ disconnects <= 1
    /\ disconnects > 0 => guardMade /\ refs = NoRefs
    /\ (guardMade /\ refs = NoRefs) => disconnects = 1
    /\ discReply = "err" =>
          /\ "error: failed to disconnect" \in gLogged
          /\ gResult \in {"Ok", "Err:live"}

\* the four tasks ran and released the interface, and the disconnect failed
C18_Witness ==
    /\ gResult = "Ok"
    /\ tasksMade = Tasks
    /\ refs = NoRefs
    /\ disconnects = 1
    /\ discReply = "err"

\* C19: when connect fails, guard construction returns an error, no task is
\* created and no disconnect is sent; when connect succeeded, a guard is
\* constructed whether or not the write of DateTime failed.
C19_ConnectFailureAborts ==
    /\ gConnect = "err" =>
          /\ gPc = "returned"
          /\ gResult = "Err:connect"
          /\ ~guardMade
          /\ tasksMade = {}
          /\ refs = NoRefs
          /\ disconnects = 0
    /\ (gConnect = "ok" /\ gPc # "time") => guardMade
    /\ "warn: could not set time" \in gLogged => gConnect = "ok" /\ guardMade

\* connect failed after the session was opened, and create_tasks returned
C19_Witness ==
    /\ gConnect = "err"
    /\ session = "open"
    /\ gPc = "returned"

(***************************************************************************)
(* Claims about ensure_mode                                                *)
(***************************************************************************)

\* C20: ensure_mode returns success only if a read-back of OperatingMode
\* equalled mode; when no read-back within the 10 attempts did, it returns
\* an error.
C20_EnsureMode ==
    modePc = "returned" =>
       /\ modeResult = "Ok" => confirmed
       /\ (~confirmed /\ modeRetries = MAX_ATTEMPTS) => modeResult = "Err"

(***************************************************************************)
(* Claims about ensure                                                     *)
(***************************************************************************)

\* the polls whose read-back equalled the value
MatchingPolls == {i \in 1..Len(pollLog) : pollLog[i] = ensValue}

\* C21: ensure writes the value once and then polls; when the device shows
\* the value on some poll (the third, say), ensure returns success after
\* exactly that many polls; when the device never shows it, ensure returns
\* an error after the configured number of polls; it never polls more often.
C21_EnsurePolls ==
    /\ Len(pollLog) <= EnsureRetries
    /\ pollLog # <<>> => ensWrites = 1
    /\ ensPc = "returned" =>
          IF MatchingPolls # {}
          THEN /\ ensResult = "Ok"
               /\ MatchingPolls = {Len(pollLog)}
          ELSE /\ ensResult = "Err"
               /\ Len(pollLog) = EnsureRetries
    /\ (ensPc = "returned" /\ reflectAt = 3 /\ pollLog[1] # ensValue) =>
          ensResult = "Ok" /\ Len(pollLog) = 3

\* the device showed the value on the third poll and ensure returned success
C21_Witness ==
    /\ ensPc = "returned"
    /\ ensResult = "Ok"
    /\ reflectAt = 3
    /\ Len(pollLog) = 3
    /\ MatchingPolls = {3}

(***************************************************************************)
(* Claims about cmd_capture                                                *)
(***************************************************************************)

\* the result cmd_capture derives from each future
CaptureOutcome(f) ==
    IF f = "watch"
    THEN IF watchRes = "ok" THEN "Ok" ELSE "Err:watch"
    ELSE IF waitRes = "ok" THEN "Ok" ELSE "Err:wait"

CaptureReadyAt(f) == IF f = "watch" THEN watchAt ELSE waitAt

\* the futures that are ready first, within the timeout
FirstReady ==
    {f \in {"watch", "wait"} :
        /\ CaptureReadyAt(f) <= CONFIRM_TIMEOUT
        /\ \A g \in {"watch", "wait"} : CaptureReadyAt(f) <= CaptureReadyAt(g)}

\* C22: cmd_capture's outcome is that of whichever of the watch and the wait
\* completes first, success or error, and the other is abandoned; when
\* neither completes within 3000 ms, it is a timeout error.
C22_FirstToComplete ==
    capPc = "returned" =>
       IF FirstReady = {}
       THEN /\ capResult = "Err:timed out"
            /\ watchSt = "dropped" /\ waitSt = "dropped"
       ELSE \E f \in FirstReady :
               /\ capResult = CaptureOutcome(f)
               /\ capNow = CaptureReadyAt(f)
               /\ IF f = "watch"
                  THEN watchSt = "ready" /\ waitSt = "dropped"
                  ELSE waitSt = "ready" /\ watchSt = "dropped"

\* the wait for the event failed first, the watch would have succeeded later
C22_Witness ==
    /\ capPc = "returned"
    /\ waitAt < watchAt
    /\ waitRes = "err" /\ watchRes = "ok"
    /\ capResult = "Err:wait"
    /\ watchSt = "dropped"

(***************************************************************************)
(* Claims about the wire codecs                                            *)
(***************************************************************************)

\* a value of the type was encoded and the wire value decoded again
RoundTripDone(kind) ==
    codecPc = "done" /\ codecKind = kind /\ codecVal # <<>>

\* C23: for every shutter speed v, ShutterSpeed::from_u64(v.to_u64()) is
\* Some(v).
C23_ShutterSpeedRoundTrip ==
    RoundTripDone("ShutterSpeed") => codecOut = codecVal

\* C24: for every aperture v, Aperture::from_u64(v.to_u64()) is Some(v).
C24_ApertureRoundTrip ==
    RoundTripDone("Aperture") => codecOut = codecVal

\* C25: for every ISO v, Iso::from_u64(v.to_u64()) is Some(v), and
\* Iso::from_u64 returns Some for every wire value, also for one wider than
\* 16 bits that is not the Auto sentinel.
C25_IsoRoundTrip ==
    /\ RoundTripDone("Iso") => codecOut = codecVal
    /\ (codecPc = "done" /\ codecKind = "Iso") => Len(codecOut) = 1

\* a wire value wider than 16 bits, not the sentinel, was decoded as an ISO
C25_Witness ==
    /\ codecPc = "done"
    /\ codecKind = "Iso"
    /\ codecVal = <<>>
    /\ codecWire[3] # 0
    /\ codecWire # ISO_AUTO
    /\ codecOut = <<IsoValue(codecWire[4])>>

(***************************************************************************)
(* Claims about query                                                      *)
(***************************************************************************)

\* the entries the count prefix announces
Announced == 1..qReply.count

\* the last announced entry with the code
LastWith(c) ==
    CHOOSE i \in Announced :
       /\ qReply.entries[i].property_code = c
       /\ \A j \in Announced : qReply.entries[j].property_code = c => j <= i

\* C26: the map query returns holds exactly the decoded entries with a
\* recognised code, each under its own code (the last one, when entries
\* share a code); an entry with an unrecognised code is skipped, fails
\* nothing and leaves the entries after it decoded as they are; the map has
\* no more entries than the count prefix says.
C26_QueryMap ==
    /\ Cardinality(properties) <= qReply.count
    /\ \A e \in properties : e.code \in KnownPropertyCodes /\ e.info.property_code = e.code
    /\ (qPc = "returned" /\ qResult = "Ok") =>
          /\ qReply.count <= Len(qReply.entries)
          /\ \A i \in Announced :
                LET c == qReply.entries[i].property_code IN
                   IF c \in KnownPropertyCodes
                   THEN [code |-> c, info |-> qReply.entries[LastWith(c)]] \in properties
                   ELSE \A e \in properties : e.code # c
          /\ \A e \in properties : \E i \in Announced : qReply.entries[i] = e.info
    /\ (qPc = "returned" /\ qResult = "Err" /\ num_entries = qReply.count /\ qReply.count > 0) =>
          qReply.count > Len(qReply.entries)

\* query returned a map with the entry that followed an unrecognised one
C26_Witness ==
    /\ qPc = "returned"
    /\ qResult = "Ok"
    /\ qReply.count = 2
    /\ qReply.entries[1].property_code = UnknownPropertyCode
    /\ qReply.entries[2].property_code \in KnownPropertyCodes
    /\ properties = {[code |-> qReply.entries[2].property_code, info |-> qReply.entries[2]]}

(***************************************************************************)
(* Claims about the supervisor                                             *)
(***************************************************************************)

\* C27: once the interrupt has been broadcast, by ctrl+c or because a task
\* failed, the process is over when the grace period of 5 seconds has
\* passed: the tasks have all ended or the supervisor has forced the exit.
C27_EndsWithinGrace ==
    (interrupted /\ since > GRACE) => procSt # "running"

\* C28: a TCP read or write error in the autopilot link makes its run return
\* the error, and the supervisor, when it handles the task's end, broadcasts
\* the interrupt to all the other tasks.
C28_LinkErrorInterrupts ==
    [][/\ linkIo' # "none" <=> taskSt'["pixhawk"] = "err"
       /\ (/\ linkIo # "none"
           /\ "pixhawk" \notin joined
           /\ "pixhawk" \in joined')
          => /\ interrupted'
             /\ "pixhawk" \in causes'
             /\ \A t \in SupTasks \ {"pixhawk"} : inbox'[t]]_vars

\* the link met a read error and the supervisor has broadcast the interrupt
C28_Witness ==
    /\ linkIo = "read"
    /\ taskSt["pixhawk"] = "err"
    /\ "pixhawk" \in joined
    /\ "pixhawk" \in causes
    /\ \A t \in SupTasks \ {"pixhawk"} : inbox[t] /\ taskSt[t] = "running"

(***************************************************************************)
(* Claims about resynchronisation and frame length                         *)
(***************************************************************************)

\* the step of recv that met a checksum failure at the first magic byte
ChecksumFailureStep == linkPc = "decode" /\ linkPc' = "scan"

\* the number of valid frames among the first j frames of the stream
RECURSIVE ValidUpTo(_, _)
ValidUpTo(fs, j) ==
    IF j = 0 THEN 0
    ELSE ValidUpTo(fs, j - 1) + (IF ValidFrame(fs[j]) THEN 1 ELSE 0)

\* every valid frame that follows a frame with a corrupted checksum has been
\* decoded, in its place among the messages recv returned
LaterFramesDecoded ==
    \A i, j \in 1..Len(scenario.frames) :
        (i < j /\ ~scenario.frames[i].good /\ ValidFrame(scenario.frames[j]))
           => LET k == ValidUpTo(scenario.frames, j)
              IN /\ Len(handled) >= k
                 /\ handled[k] = MsgOf(scenario.frames[j])

\* the checksum failure removes the bytes up to and including the magic
\* byte and leaves every later byte in the buffer, in order
DiscardOnlyMagic ==
    ChecksumFailureStep
       => /\ buf = SubSeq(buf, 1, magic_position(buf) + 1) \o buf'
          /\ buf[magic_position(buf) + 1] = MAGIC
          /\ \A p \in 1..magic_position(buf) : buf[p] # MAGIC

\* C29: when the candidate frame at the first magic byte fails its
\* checksum, recv removes the bytes up to and including that one magic byte
\* and nothing after it, every later byte staying in the buffer in order;
\* so a valid frame that starts after that magic byte is still decoded:
\* once the stream has been read to its end, every valid frame behind a
\* corrupted one has been returned.
C29_DiscardOnlyMagic ==
    [][/\ DiscardOnlyMagic
       /\ StreamDrained' => LaterFramesDecoded']_vars

\* the buffer effect of the checksum failure alone
DiscardKeepsLaterBytes == [][DiscardOnlyMagic]_vars

\* the step of recv that decoded a frame and returned its message
DecodeSuccessStep == linkPc = "decode" /\ handled' # handled

\* the n bytes of the buffer that start at the first magic byte, n being the
\* byte after the magic plus the overhead
CandidateFrame(b, overhead) ==
    SubSeq(b, magic_position(b) + 1, magic_position(b) + b[magic_position(b) + 2] + overhead)

\* recv takes a candidate frame of the length byte plus `overhead` bytes,
\* and a successful decode removes the bytes before the magic and that frame
FrameLengthIs(overhead) ==
    /\ linkPc = "decode"
          => /\ msg_content(buf) = CandidateFrame(buf, overhead)
             /\ Len(msg_content(buf)) = buf[magic_position(buf) + 2] + overhead
    /\ DecodeSuccessStep
          => /\ buf = SubSeq(buf, 1, magic_position(buf)) \o CandidateFrame(buf, overhead) \o buf'
             /\ Len(buf) - Len(buf') = magic_position(buf) + buf[magic_position(buf) + 2] + overhead
             /\ [kind |-> "Ok", msg |-> lastMsg'] \in read_v1_msg(CandidateFrame(buf, overhead))

\* C30 as stated: the candidate frame recv takes from the buffer is the
\* declared payload length (the byte immediately after the magic byte) plus
\* 10 bytes of overhead, and a successful decode advances the buffer by the
\* bytes before the magic plus that frame length.
C30_FrameLengthTen == [][FrameLengthIs(10)]_vars

\* C30, amended: the candidate frame recv takes from the buffer is the
\* declared payload length (the byte immediately after the magic byte) plus
\* 8 bytes of overhead (magic, length, sequence, system, component, message
\* id, two checksum bytes), and a successful decode advances the buffer by
\* the bytes before the magic plus that frame length.
C30_FrameLength == [][FrameLengthIs(V1_OVERHEAD)]_vars

\* a valid frame has been decoded that had leftover bytes of a corrupted
\* frame before its magic byte
C30_Witness ==
    /\ Len(scenario.frames) >= 2
    /\ ~scenario.frames[1].good
    /\ ValidFrame(scenario.frames[2])
    /\ handled = << MsgOf(scenario.frames[2]) >>
    /\ linkPc = "idle"
    /\ buf # <<>>

(***************************************************************************)
(* Claims about the handshake after an authentication failure              *)
(***************************************************************************)

\* the places in the device's log of the SDIO_Connect commands of phase k
PhaseAt(k) == {i \in 1..Len(ptpLog) : IsPhase(ptpLog[i], k)}

\* the number of SDIO_Connect commands of phase k the device saw
PhaseSent(k) == Cardinality(PhaseAt(k))

\* the device-info requests that were answered with authentication failed
\* while the version could still be raised
AuthRaiseAt ==
    {i \in 1..Len(ptpLog) :
        /\ IsInfo(ptpLog[i])
        /\ ptpLog[i].reply = "auth"
        /\ ptpLog[i].arg < LAST_VERSION}

LinkEnded == linkPc \in {"exited", "failed", "panicked"}

\* the run loop leaves by the interrupt only where recv has just returned
ExitOnlyBetweenRecvs ==
    (linkPc # "exited" /\ linkPc' = "exited")
       => /\ linkPc = "run_check"
          /\ linkCtx = "run"
          /\ linkOp' = linkOp /\ buf' = buf /\ handled' = handled

\* C32: once the interrupt has been broadcast the link's run loop
\* eventually exits, and it observes the interrupt only between complete
\* calls of recv: no step of init, no acknowledgement wait and no frame
\* being decoded is cut short by it.
C32_InterruptEndsLink ==
    /\ [][ExitOnlyBetweenRecvs]_vars
    /\ interrupted ~> LinkEnded

\* the safe-point half alone
InterruptOnlyAtSafePoint == [][ExitOnlyBetweenRecvs]_vars

\* run_tasks takes up the end of task t, which failed or could not be joined
JoinsFailed(t) ==
    /\ procSt = "running"
    /\ t \notin joined
    /\ taskSt[t] \in {"err", "panicked"}
    /\ t \in joined' \/ procSt' = "exited:err"

\* C33: when a task ends with an error or cannot be joined (it panicked),
\* run_tasks broadcasts the interrupt to the remaining tasks before the
\* process ends: after the step that takes up the task's end the interrupt
\* is in the receiver of every other task.
C33_FailureInterrupts ==
    [][\A t \in SupTasks :
          JoinsFailed(t)
             => /\ interrupted'
                /\ \A u \in SupTasks \ {t} : inbox'[u]]_vars

\* the error half alone: a task that returned an error
ErrorInterrupts ==
    [][\A t \in SupTasks :
          (JoinsFailed(t) /\ taskSt[t] = "err" /\ t \in joined')
             => /\ interrupted'
                /\ \A u \in SupTasks \ {t} : inbox'[u]]_vars

(***************************************************************************)
(* Claims about recv and the socket                                        *)
(***************************************************************************)

\* the buffer holds all bytes of a valid frame that starts at its first
\* magic byte
CompleteFrameAtMagic(b) ==
    /\ magic_position(b) >= 0
    /\ Len(b) >= magic_position(b) + 2
    /\ Len(b) >= magic_position(b) + b[magic_position(b) + 2] + V1_OVERHEAD
    /\ \A r \in read_v1_msg(CandidateFrame(b, V1_OVERHEAD)) : r.kind = "Ok"

\* recv waits for the socket
AwaitsSocket == linkPc \in {"read_hdr", "read_body"}

\* C34: when the buffer holds a complete valid frame that starts at the
\* first magic byte, recv returns its message without needing a further
\* byte from the socket: recv never waits for the socket while such a frame
\* is in the buffer.
C34_NoFrameHeldBack == CompleteFrameAtMagic(buf) => ~AwaitsSocket

\* a socket read has nothing left to return but 0 bytes
SocketAtEof == scenario.eof /\ wire = <<>>

\* recv returned an error to run()
RecvFailed == linkPc = "failed" /\ opResult.kind = "Err"

\* C35: when the autopilot closes the connection (a socket read returns 0
\* bytes) while recv still needs bytes, recv ends by returning an error; it
\* does not go on re-reading the closed socket for ever.
C35_ClosedSocketIsError == (SocketAtEof /\ AwaitsSocket) ~> RecvFailed

\* the whole stream of the scenario
Stream == EncodeAll(scenario.frames) \o scenario.tail

IsSuffix(t, u) ==
    Len(t) <= Len(u) /\ t = SubSeq(u, Len(u) - Len(t) + 1, Len(u))

\* the step in which a timeout of wait_for_message cancels recv
TimeoutStep == AwaitsSocket /\ wfmStatus' = "timeout" /\ wfmStatus # "timeout"

\* the frame at the first magic byte is the one the last timeout cut recv in
FrameAtCut == cutRest > 0 /\ RestFrom(buf, wire) = cutRest

\* C36: a timeout of wait_for_message that cancels recv in the middle of a
\* frame loses no bytes: the bytes read before the timeout are in the buffer
\* afterwards, in stream order, and a later recv decodes that frame once its
\* remaining bytes have arrived: it does not wait for the socket with the
\* whole frame in the buffer.
C36_TimeoutKeepsBytes ==
    [][/\ IsSuffix(buf' \o wire', Stream')
       /\ TimeoutStep => (buf' = buf /\ wire' = wire)
       /\ (FrameAtCut' /\ CompleteFrameAtMagic(buf')) => ~AwaitsSocket']_vars

\* the first half alone: nothing read is lost by a timeout
TimeoutLosesNothing ==
    [][/\ IsSuffix(buf' \o wire', Stream')
       /\ TimeoutStep => (buf' = buf /\ wire' = wire)]_vars

(***************************************************************************)
(* Claims about handle                                                     *)
(***************************************************************************)

\* the messages of the valid frames of a stream, in stream order
RECURSIVE ValidMsgs(_)
ValidMsgs(fs) ==
    IF fs = <<>> THEN <<>>
    ELSE (IF ValidFrame(Head(fs)) THEN << MsgOf(Head(fs)) >> ELSE <<>>) \o ValidMsgs(Tail(fs))

\* the messages the current wait has been given
SeenMsgs == [i \in 1..Len(wfmSeen) |-> wfmSeen[i].msg]

\* the message of the valid frame at the first magic byte
MsgAtMagic(b) == (CHOOSE r \in read_v1_msg(CandidateFrame(b, V1_OVERHEAD)) : TRUE).msg

\* C37: every successfully decoded message is passed to handle exactly once
\* and in stream order, under the run loop and under wait_for_message,
\* whether or not it satisfies the waiter's predicate, and recv returns it:
\* an event without a subscriber is not an error.  What a wait is given are
\* the messages decoded during that wait: a new wait starts with none, so a
\* message consumed by one wait is never delivered to a later one.
C37_HandledOnceInOrder ==
    [][/\ IsPrefix(handled', ValidMsgs(scenario'.frames))
       /\ (linkPc = "decode" /\ CompleteFrameAtMagic(buf))
             => /\ handled' = Append(handled, MsgAtMagic(buf))
                /\ lastMsg' = MsgAtMagic(buf)
                /\ linkPc' = IF InWait THEN "wfm_check" ELSE "run_check"
                /\ opResult' = opResult
                /\ buf' = advance(buf, magic_position(buf) + Len(CandidateFrame(buf, V1_OVERHEAD)))
       /\ handled' # handled => (linkPc = "decode" /\ CompleteFrameAtMagic(buf))
       /\ wfmSeen' # wfmSeen
             => \/ wfmSeen' = <<>> /\ opCount' = opCount + 1 /\ handled' = handled
                \/ /\ handled' # handled
                   /\ SeenMsgs' = Append(SeenMsgs, handled'[Len(handled')])
       /\ opCount' # opCount => (wfmSeen' = <<>> /\ buf' = buf)
       /\ IsSuffix(SeenMsgs', handled')]_vars

\* a wait was given an event that did not satisfy its predicate, handle got
\* it, and the wait went on to the message it waited for
C37_Witness ==
    /\ linkCtx = "wfm"
    /\ opCount = 1
    /\ handled = << Attitude, CommandAck(MavCmd.DO_DIGICAM_CONTROL, MavResult.ACCEPTED) >>
    /\ SeenMsgs = handled
    /\ wfmStatus = "ok"

(***************************************************************************)
(* Claims about the Interval request of continuous capture                 *)
(***************************************************************************)

\* the request's t: its interval in tenths of a second, as a u16
TenthsOf(r) ==
    IF r.nan \/ r.h < 0 THEN 0
    ELSE IF r.h >= 655360 THEN 65535
    ELSE r.h \div 10

IntervalAccepted == ivPc = "ensure" \/ ivWrites # <<>>

IntervalRejected == ivPc = "idle" /\ ivResult.why # "pending" /\ ivWrites = <<>>

\* C39: an Interval request is accepted exactly when its interval t, in
\* tenths of a second as a u16, satisfies 10 <= t <= 300 and is a multiple of
\* 5; every other request returns an error before any device operation, and
\* an accepted request writes exactly t to IntervalTime.
C39_IntervalValidation ==
    LET t == TenthsOf(ivReq)
        Valid == 10 <= t /\ t <= 300 /\ t % 5 = 0
    IN (ivPc # "check" /\ (ivPc = "idle" => ivResult.why # "pending")) =>
          /\ IntervalAccepted <=> Valid
          /\ ~Valid => IntervalRejected /\ ~ivResult.ok
          /\ \A i \in 1..Len(ivWrites) :
                ivWrites[i] = [prop |-> "IntervalTime", value |-> t]
          /\ Len(ivWrites) <= 1
          /\ (Valid /\ ivPc = "idle") => Len(ivWrites) = 1

\* A request of 12.5 s has been accepted and has written 125.
C39_Witness ==
    /\ ivPc = "idle"
    /\ ivReq = [nan |-> FALSE, h |-> 1250]
    /\ ivWrites = <<[prop |-> "IntervalTime", value |-> 125]>>
    /\ ivResult.ok

(***************************************************************************)
(* Claims about a producer's command() call                                *)
(***************************************************************************)

ConsumerGone == ~busOpen

InCommand(p) == prodPc[p] \in {"send", "await"}

\* command() returns: the producer leaves the call other than by abandoning
\* it
CommandReturns(p) ==
    /\ InCommand(p)
    /\ prodPc'[p] = "idle"
    /\ prodResult'[p] # "abandoned"

CommandErrors == {"could not send command", "canceled"}

\* what command() returns is what each case of its code gives
CommandResult ==
    \A p \in Producers :
        CommandReturns(p) =>
            LET ch == chan[prodCmd[p]]
            IN /\ (prodPc[p] = "send") => (ConsumerGone /\ prodResult'[p] = "could not send command")
               /\ (prodPc[p] = "await" /\ ch.sent = 0) =>
                     (ch.tx = "dropped" /\ prodResult'[p] = "canceled")
               /\ (prodPc[p] = "await" /\ ch.sent > 0) =>
                     (\E i \in 1..Len(replyLog) : replyLog[i] = prodCmd[p])
                        /\ prodResult'[p] = ch.value
                        /\ prodResult'[p] \notin CommandErrors

\* C40: a command() call never waits forever on a consumer that is gone: with
\* the bus's receiving end closed at enqueue time it returns an error, with
\* the reply sender dropped without a reply it returns an error, otherwise it
\* returns exactly the result the consumer sent for the request.
C40_CommandAlwaysReturns ==
    /\ [][CommandResult]_vars
    /\ \A p \in Producers : (InCommand(p) /\ ConsumerGone) ~> ~InCommand(p)

\* the results of command() alone
C40_CommandResult == [][CommandResult]_vars

\* A producer waits for the reply to a command that is still queued on a bus
\* whose consumer has stopped.
WaitsOnGoneConsumer ==
    \E p \in Producers :
        /\ prodPc[p] = "await"
        /\ ConsumerGone
        /\ InSeq(prodCmd[p], cmdQueue)
        /\ chan[prodCmd[p]].tx = "alive"

====
